---- MODULE Spec2Model ----
(***************************************************************************)
(* Model of KnowledgeGraphManager (src/index.ts): the JSONL-backed entity  *)
(* and relation store, its six mutating operations and the graph           *)
(* traversals findPath and getSubgraph, getNeighbors, and the query        *)
(* engine behind searchNodes and searchObservations.                       *)
(*                                                                         *)
(* Every public operation loads the whole graph from the file, computes    *)
(* in memory and, for a mutation, writes the whole graph back.  A call is  *)
(* one action; the request, the file as it was before the call, and the    *)
(* response are kept in call, pre and ret until the response is delivered. *)
(* Calls that run concurrently are kept in tasks, each with the graph it   *)
(* loaded: its load and its save are separate steps.  gone records the     *)
(* names that a deleteEntities call listed and no createEntities call has  *)
(* listed since.                                                           *)
(***************************************************************************)
EXTENDS Integers, Sequences, FiniteSets, TLC

VARIABLES file, call, pre, ret, tasks, gone

vars == <<file, call, pre, ret, tasks, gone>>

(***************************************************************************)
(* Bounds of the model.                                                    *)
(***************************************************************************)
MaxEntities == 3
MaxRelations == 3
MaxArgLen == 2
MaxDepth == 2
NumTasks == 2

(***************************************************************************)
(* Generic sequence helpers (Array.prototype.filter / includes / some).    *)
(***************************************************************************)
Range(s) == {s[i] : i \in DOMAIN s}

SeqsUpTo(S, n) == UNION {[1..k -> S] : k \in 0..n}

Min(S) == CHOOSE x \in S : \A y \in S : x <= y

(***************************************************************************)
(* Entity, Relation and KnowledgeGraph records.                            *)
(***************************************************************************)
Entity(n, t, o) == [name |-> n, entityType |-> t, observations |-> o]

Relation(f, t, rt) == [from |-> f, to |-> t, relationType |-> rt]

KnowledgeGraph(es, rs) == [entities |-> es, relations |-> rs]

EmptyGraph == KnowledgeGraph(<<>>, <<>>)

(***************************************************************************)
(* The file: absent (ENOENT) or a sequence of JSON lines, each line a      *)
(* record carrying a "type" discriminator that the in-memory model lacks.  *)
(***************************************************************************)
NoFile == [exists |-> FALSE, lines |-> <<>>]

EntityLine(e) ==
    [type |-> "entity", name |-> e.name, entityType |-> e.entityType,
     observations |-> e.observations]

RelationLine(r) ==
    [type |-> "relation", from |-> r.from, to |-> r.to,
     relationType |-> r.relationType]

(* Each record put in front of those read before it. *)
RECURSIVE loadLinesNewestFirst(_, _)
loadLinesNewestFirst(lines, graph) ==
    IF lines = <<>> THEN graph
    ELSE LET item == Head(lines)
         IN  loadLinesNewestFirst(
                 Tail(lines),
                 IF item.type = "entity"
                 THEN KnowledgeGraph(
                          <<Entity(item.name, item.entityType, item.observations)>>
                              \o graph.entities,
                          graph.relations)
                 ELSE KnowledgeGraph(
                          graph.entities,
                          <<Relation(item.from, item.to, item.relationType)>>
                              \o graph.relations))

RECURSIVE loadLines(_, _)
loadLines(lines, graph) ==
    IF lines = <<>> THEN graph
    ELSE LET item == Head(lines)
             g1 == IF item.type = "entity"
                   THEN KnowledgeGraph(
                            Append(graph.entities,
                                   Entity(item.name, item.entityType, item.observations)),
                            graph.relations)
                   ELSE graph
             g2 == IF item.type = "relation"
                   THEN KnowledgeGraph(
                            g1.entities,
                            Append(g1.relations,
                                   Relation(item.from, item.to, item.relationType)))
                   ELSE g1
         IN  loadLines(Tail(lines), g2)

loadGraph(f) == IF f.exists THEN loadLines(f.lines, EmptyGraph) ELSE EmptyGraph

saveGraph(graph) ==
    [exists |-> TRUE,
     lines  |-> [i \in 1..Len(graph.entities) |-> EntityLine(graph.entities[i])]
                \o [i \in 1..Len(graph.relations) |-> RelationLine(graph.relations[i])]]

(***************************************************************************)
(* createEntities: entities whose name is not in the loaded graph are      *)
(* appended; the filter looks only at the loaded graph, not at the list.   *)
(***************************************************************************)
hasName(entities, n) == \E i \in DOMAIN entities : entities[i].name = n

newEntitiesOf(graph, entities) ==
    SelectSeq(entities, LAMBDA e : ~hasName(graph.entities, e.name))

(* A create that overwrites a stored entity of the same name. *)
createEntitiesOverwriting(graph, entities) ==
    LET newEntities == newEntitiesOf(graph, entities)
        latest(e) ==
            IF hasName(entities, e.name)
            THEN entities[CHOOSE i \in DOMAIN entities : entities[i].name = e.name]
            ELSE e
    IN  [graph |-> KnowledgeGraph(
                       [i \in DOMAIN graph.entities |-> latest(graph.entities[i])]
                       \o newEntities,
                       graph.relations),
         value |-> newEntities]

createEntitiesResult(graph, entities) ==
    LET newEntities == newEntitiesOf(graph, entities)
    IN  [graph |-> KnowledgeGraph(graph.entities \o newEntities, graph.relations),
         value |-> newEntities]

(***************************************************************************)
(* createRelations: the same shape, keyed by (from, to, relationType).     *)
(***************************************************************************)
sameTriple(a, b) ==
    a.from = b.from /\ a.to = b.to /\ a.relationType = b.relationType

hasTriple(relations, r) == \E i \in DOMAIN relations : sameTriple(relations[i], r)

newRelationsOf(graph, relations) ==
    SelectSeq(relations, LAMBDA r : ~hasTriple(graph.relations, r))

createRelationsResult(graph, relations) ==
    LET newRelations == newRelationsOf(graph, relations)
    IN  [graph |-> KnowledgeGraph(graph.entities, graph.relations \o newRelations),
         value |-> newRelations]

(***************************************************************************)
(* addObservations: the batch is mapped in order; the first entry whose    *)
(* entity is missing throws, and the throw skips saveGraph.                *)
(***************************************************************************)
find(entities, n) ==
    IF hasName(entities, n)
    THEN Min({i \in DOMAIN entities : entities[i].name = n})
    ELSE 0

newObservationsOf(stored, contents) ==
    SelectSeq(contents, LAMBDA content : content \notin Range(stored))

RECURSIVE addObservationsMap(_, _, _)
addObservationsMap(graph, observations, results) ==
    IF observations = <<>>
    THEN [threw |-> FALSE, graph |-> graph, results |-> results]
    ELSE LET o == Head(observations)
             idx == find(graph.entities, o.entityName)
         IN  IF idx = 0
             THEN [threw |-> TRUE, graph |-> graph, results |-> results]
             ELSE LET newObservations ==
                          newObservationsOf(graph.entities[idx].observations, o.contents)
                      pushed == [graph.entities EXCEPT
                                   ![idx].observations = @ \o newObservations]
                  IN  addObservationsMap(
                          KnowledgeGraph(pushed, graph.relations),
                          Tail(observations),
                          Append(results,
                                 [entityName |-> o.entityName,
                                  addedObservations |-> newObservations]))

(***************************************************************************)
(* deleteEntities, deleteObservations, deleteRelations.                    *)
(***************************************************************************)
(* A cascade that looks only at the from end of a relation. *)
deleteEntitiesFromOnly(graph, entityNames) ==
    KnowledgeGraph(
        SelectSeq(graph.entities, LAMBDA e : e.name \notin Range(entityNames)),
        SelectSeq(graph.relations, LAMBDA r : r.from \notin Range(entityNames)))

(* A delete that handles only the first listed name. *)
deleteEntitiesHeadOnly(graph, entityNames) ==
    LET listed == IF entityNames = <<>> THEN {} ELSE {Head(entityNames)}
    IN  KnowledgeGraph(
            SelectSeq(graph.entities, LAMBDA e : e.name \notin listed),
            SelectSeq(graph.relations,
                      LAMBDA r : r.from \notin listed /\ r.to \notin listed))

(* A delete without the cascade. *)
deleteEntitiesKeepingRelations(graph, entityNames) ==
    KnowledgeGraph(
        SelectSeq(graph.entities, LAMBDA e : e.name \notin Range(entityNames)),
        graph.relations)

deleteEntitiesResult(graph, entityNames) ==
    KnowledgeGraph(
        SelectSeq(graph.entities, LAMBDA e : e.name \notin Range(entityNames)),
        SelectSeq(graph.relations,
                  LAMBDA r : r.from \notin Range(entityNames)
                             /\ r.to \notin Range(entityNames)))

RECURSIVE deleteObservationsEach(_, _)
deleteObservationsEach(graph, deletions) ==
    IF deletions = <<>> THEN graph
    ELSE LET d == Head(deletions)
             idx == find(graph.entities, d.entityName)
             g1 == IF idx = 0 THEN graph
                   ELSE KnowledgeGraph(
                            [graph.entities EXCEPT
                               ![idx].observations =
                                   SelectSeq(@, LAMBDA o : o \notin Range(d.observations))],
                            graph.relations)
         IN  deleteObservationsEach(g1, Tail(deletions))

deleteRelationsResult(graph, relations) ==
    KnowledgeGraph(
        graph.entities,
        SelectSeq(graph.relations, LAMBDA r : ~hasTriple(relations, r)))

(***************************************************************************)
(* findPath: breadth-first search over the relations taken in both         *)
(* directions.  entityMap is keyed by name (a later entity of the same     *)
(* name overwrites an earlier one); adjacency has a list for every stored  *)
(* name and each relation is pushed onto the lists of its stored ends.     *)
(***************************************************************************)
entityNamesOf(graph) == {graph.entities[i].name : i \in DOMAIN graph.entities}

entityMap(graph) ==
    [n \in entityNamesOf(graph) |->
        graph.entities[CHOOSE i \in DOMAIN graph.entities :
                          /\ graph.entities[i].name = n
                          /\ \A j \in DOMAIN graph.entities :
                                graph.entities[j].name = n => j <= i]]

RECURSIVE adjacencyList(_, _)
adjacencyList(relations, n) ==
    IF relations = <<>> THEN <<>>
    ELSE LET rel == Head(relations)
         IN  (IF rel.from = n THEN <<[neighbor |-> rel.to, relation |-> rel]>> ELSE <<>>)
             \o (IF rel.to = n THEN <<[neighbor |-> rel.from, relation |-> rel]>> ELSE <<>>)
             \o adjacencyList(Tail(relations), n)

adjacency(graph) ==
    [n \in entityNamesOf(graph) |-> adjacencyList(graph.relations, n)]

NullPath == [isNull |-> TRUE]

PathResult(p, rs) ==
    [isNull |-> FALSE, path |-> p, relations |-> rs, length |-> Len(p) - 1]

(* A push that leaves the traversed relation out of the item. *)
expandDroppingRelation(current, adj, visited) ==
    LET unvisited == SelectSeq(adj, LAMBDA a : a.neighbor \notin visited)
    IN  [i \in 1..Len(unvisited) |->
            [name      |-> unvisited[i].neighbor,
             path      |-> Append(current.path, unvisited[i].neighbor),
             relations |-> current.relations]]

expand(current, adj, visited) ==
    LET unvisited == SelectSeq(adj, LAMBDA a : a.neighbor \notin visited)
    IN  [i \in 1..Len(unvisited) |->
            [name      |-> unvisited[i].neighbor,
             path      |-> Append(current.path, unvisited[i].neighbor),
             relations |-> Append(current.relations, unvisited[i].relation)]]

(* A depth test that is off by one, and one that never cuts. *)
tooDeepOffByOne(current, maxDepth) == Len(current.path) >= maxDepth

neverTooDeep(current, maxDepth) == FALSE

tooDeep(current, maxDepth) == Len(current.path) > maxDepth

RECURSIVE bfs(_, _, _, _, _)
bfs(graph, queue, visited, toEntity, maxDepth) ==
    IF queue = <<>> THEN NullPath
    ELSE LET current == Head(queue)
             rest == Tail(queue)
         IN  IF current.name = toEntity
             THEN PathResult([i \in 1..Len(current.path) |->
                                 entityMap(graph)[current.path[i]]],
                             current.relations)
             ELSE IF tooDeep(current, maxDepth)
             THEN bfs(graph, rest, visited, toEntity, maxDepth)
             ELSE IF current.name \in visited
             THEN bfs(graph, rest, visited, toEntity, maxDepth)
             ELSE LET adj == IF current.name \in entityNamesOf(graph)
                             THEN adjacency(graph)[current.name]
                             ELSE <<>>
                  IN  bfs(graph,
                          rest \o expand(current, adj, visited \cup {current.name}),
                          visited \cup {current.name}, toEntity, maxDepth)

findPathResult(graph, fromEntity, toEntity, maxDepth) ==
    IF fromEntity \notin entityNamesOf(graph) \/ toEntity \notin entityNamesOf(graph)
    THEN NullPath
    ELSE IF fromEntity = toEntity
    THEN PathResult(<<entityMap(graph)[fromEntity]>>, <<>>)
    ELSE bfs(graph,
             <<[name |-> fromEntity, path |-> <<fromEntity>>, relations |-> <<>>]>>,
             {}, toEntity, maxDepth)

(***************************************************************************)
(* getSubgraph: depth rounds, each adding the other end of every relation  *)
(* that has an end in the set as it stood when the round began.            *)
(***************************************************************************)
(* An expansion that follows relations only from their from end. *)
newNeighborsOutgoingOnly(entitySet, relations) ==
    {relations[i].to : i \in {j \in DOMAIN relations : relations[j].from \in entitySet}}

newNeighborsOf(entitySet, relations) ==
    {relations[i].to : i \in {j \in DOMAIN relations : relations[j].from \in entitySet}}
    \cup
    {relations[i].from : i \in {j \in DOMAIN relations : relations[j].to \in entitySet}}

(* A loop that runs one round too many. *)
RECURSIVE expandRoundsOneMore(_, _, _, _)
expandRoundsOneMore(entitySet, relations, i, depth) ==
    IF i <= depth
    THEN expandRoundsOneMore(entitySet \cup newNeighborsOf(entitySet, relations),
                             relations, i + 1, depth)
    ELSE entitySet

RECURSIVE expandRounds(_, _, _, _)
expandRounds(entitySet, relations, i, depth) ==
    IF i < depth
    THEN expandRounds(entitySet \cup newNeighborsOf(entitySet, relations),
                      relations, i + 1, depth)
    ELSE entitySet

getSubgraphResult(graph, entityNames, depth) ==
    LET entitySet == expandRounds(Range(entityNames), graph.relations, 0, depth)
    IN  KnowledgeGraph(
            SelectSeq(graph.entities, LAMBDA e : e.name \in entitySet),
            SelectSeq(graph.relations,
                      LAMBDA r : r.from \in entitySet /\ r.to \in entitySet))

(***************************************************************************)
(* Optional arguments: undefined, or a supplied value; `x && ...` and      *)
(* `x ? ... : ...` test the truthiness of the value.                       *)
(***************************************************************************)
Undefined == [given |-> FALSE]

Given(v) == [given |-> TRUE, value |-> v]

truthyString(x) == x.given /\ x.value # ""

truthyNumber(x) == x.given /\ x.value # 0

(***************************************************************************)
(* getNeighbors: the relations of an entity, scanned in stored order.      *)
(***************************************************************************)
NeighborResult(e, rel, d) == [entity |-> e, relation |-> rel, direction |-> d]

outgoingOf(map, rel, entityName, direction) ==
    IF direction \in {"both", "outgoing"} /\ rel.from = entityName
          /\ rel.to \in DOMAIN map
    THEN <<NeighborResult(map[rel.to], rel, "outgoing")>>
    ELSE <<>>

(* The incoming test as the else-branch of the outgoing one. *)
incomingOfElse(map, rel, entityName, direction) ==
    IF direction \in {"both", "incoming"} /\ rel.to = entityName
          /\ rel.from \in DOMAIN map
          /\ outgoingOf(map, rel, entityName, direction) = <<>>
    THEN <<NeighborResult(map[rel.from], rel, "incoming")>>
    ELSE <<>>

incomingOf(map, rel, entityName, direction) ==
    IF direction \in {"both", "incoming"} /\ rel.to = entityName
          /\ rel.from \in DOMAIN map
    THEN <<NeighborResult(map[rel.from], rel, "incoming")>>
    ELSE <<>>

RECURSIVE neighborScan(_, _, _, _, _, _)
neighborScan(map, relations, entityName, direction, relationType, results) ==
    IF relations = <<>> THEN results
    ELSE LET rel == Head(relations)
             pushed ==
                 IF truthyString(relationType) /\ rel.relationType # relationType.value
                 THEN results
                 ELSE results \o outgoingOf(map, rel, entityName, direction)
                              \o incomingOf(map, rel, entityName, direction)
         IN  neighborScan(map, Tail(relations), entityName, direction,
                          relationType, pushed)

getNeighborsResult(graph, entityName, direction, relationType) ==
    IF entityName \notin DOMAIN entityMap(graph) THEN <<>>
    ELSE neighborScan(entityMap(graph), graph.relations, entityName, direction,
                      relationType, <<>>)

(***************************************************************************)
(* Strings of the search engine: sequences of one-character strings.       *)
(* The characters are letters of either case, the space (the only          *)
(* whitespace used) and the query punctuation + - " :                      *)
(***************************************************************************)
UpperCase == <<"A", "B", "C", "D", "E", "F", "G", "H", "I", "J", "K", "L", "M",
               "N", "O", "P", "Q", "R", "S", "T", "U", "V", "W", "X", "Y", "Z">>

LowerCase == <<"a", "b", "c", "d", "e", "f", "g", "h", "i", "j", "k", "l", "m",
               "n", "o", "p", "q", "r", "s", "t", "u", "v", "w", "x", "y", "z">>

LowerOf ==
    [c \in Range(UpperCase) |->
        LowerCase[CHOOSE i \in DOMAIN UpperCase : UpperCase[i] = c]]

toLowerChar(c) == IF c \in DOMAIN LowerOf THEN LowerOf[c] ELSE c

toLowerCase(text) == [i \in DOMAIN text |-> toLowerChar(text[i])]

isSpace(c) == c = " "

startsWithAt(text, i, sub) ==
    /\ i + Len(sub) - 1 <= Len(text)
    /\ \A k \in DOMAIN sub : text[i + k - 1] = sub[k]

startsWith(text, sub) == startsWithAt(text, 1, sub)

includes(text, sub) == \E i \in 1..(Len(text) + 1) : startsWithAt(text, i, sub)

indexOf(text, sub) ==
    IF includes(text, sub)
    THEN Min({i \in 1..(Len(text) + 1) : startsWithAt(text, i, sub)})
    ELSE 0

(* String.prototype.replace with a string pattern: the first occurrence. *)
replaceFirst(text, pattern, replacement) ==
    LET i == indexOf(text, pattern)
    IN  IF i = 0 THEN text
        ELSE SubSeq(text, 1, i - 1) \o replacement
                 \o SubSeq(text, i + Len(pattern), Len(text))

(* split(/\s+/): the pieces between maximal runs of whitespace, an empty   *)
(* piece before a leading run and after a trailing one included.           *)
RECURSIVE splitWords(_, _, _)
splitWords(text, word, inSpace) ==
    IF text = <<>> THEN <<word>>
    ELSE IF isSpace(Head(text))
         THEN IF inSpace THEN splitWords(Tail(text), <<>>, TRUE)
              ELSE <<word>> \o splitWords(Tail(text), <<>>, TRUE)
         ELSE splitWords(Tail(text), Append(word, Head(text)), FALSE)

split(text) == splitWords(text, <<>>, FALSE)

nonEmpty(words) == SelectSeq(words, LAMBDA w : Len(w) > 0)

tokenize(text) == nonEmpty(split(toLowerCase(text)))

RECURSIVE trimStart(_)
trimStart(text) ==
    IF text # <<>> /\ isSpace(Head(text)) THEN trimStart(Tail(text)) ELSE text

RECURSIVE trimEnd(_)
trimEnd(text) ==
    IF text # <<>> /\ isSpace(text[Len(text)])
    THEN trimEnd(SubSeq(text, 1, Len(text) - 1))
    ELSE text

trim(text) == trimEnd(trimStart(text))

RECURSIVE join(_)
join(texts) ==
    IF texts = <<>> THEN <<>>
    ELSE IF Len(texts) = 1 THEN texts[1]
         ELSE texts[1] \o <<" ">> \o join(Tail(texts))

some(seq, P(_)) == \E i \in DOMAIN seq : P(seq[i])

Map(seq, f(_)) == [i \in DOMAIN seq |-> f(seq[i])]

Max(S) == CHOOSE x \in S : \A y \in S : x >= y

(***************************************************************************)
(* parseQuery: phrases between double quotes, then the tokens of the rest. *)
(***************************************************************************)
Quote == "\""

nextQuote(text, i) ==
    IF \E j \in (i + 1)..Len(text) : text[j] = Quote
    THEN Min({j \in (i + 1)..Len(text) : text[j] = Quote})
    ELSE 0

(* The successive matches of /"([^"]+)"/g from position i on. *)
RECURSIVE phraseMatches(_, _)
phraseMatches(query, i) ==
    IF i > Len(query) THEN <<>>
    ELSE IF query[i] = Quote /\ nextQuote(query, i) > i + 1
         THEN <<[from |-> i, to |-> nextQuote(query, i)]>>
                  \o phraseMatches(query, nextQuote(query, i) + 1)
         ELSE phraseMatches(query, i + 1)

(* remainingQuery.replace(match[0], ' ') for each match in turn. *)
RECURSIVE blankMatches(_, _, _)
blankMatches(query, matches, remainingQuery) ==
    IF matches = <<>> THEN remainingQuery
    ELSE blankMatches(query, Tail(matches),
                      replaceFirst(remainingQuery,
                                   SubSeq(query, Head(matches).from, Head(matches).to),
                                   <<" ">>))

ParsedQuery(required, optional, excluded, phrases) ==
    [required |-> required, optional |-> optional,
     excluded |-> excluded, phrases |-> phrases]

(* A parser whose last branch is a plain else: a bare sign is optional. *)
parseQueryBareOptional(query) ==
    LET matches == phraseMatches(query, 1)
        tokens == nonEmpty(split(blankMatches(query, matches, query)))
        marked(token, sign) == startsWith(token, <<sign>>) /\ Len(token) > 1
    IN  ParsedQuery(
            Map(SelectSeq(tokens, LAMBDA t : marked(t, "+")),
                LAMBDA t : toLowerCase(Tail(t))),
            Map(SelectSeq(tokens, LAMBDA t : ~marked(t, "+") /\ ~marked(t, "-")),
                toLowerCase),
            Map(SelectSeq(tokens, LAMBDA t : marked(t, "-")),
                LAMBDA t : toLowerCase(Tail(t))),
            Map(matches,
                LAMBDA m : toLowerCase(SubSeq(query, m.from + 1, m.to - 1))))

parseQuery(query) ==
    LET matches == phraseMatches(query, 1)
        tokens == nonEmpty(split(blankMatches(query, matches, query)))
        marked(token, sign) == startsWith(token, <<sign>>) /\ Len(token) > 1
    IN  ParsedQuery(
            Map(SelectSeq(tokens, LAMBDA t : marked(t, "+")),
                LAMBDA t : toLowerCase(Tail(t))),
            Map(SelectSeq(tokens, LAMBDA t : /\ ~startsWith(t, <<"+">>)
                                             /\ ~startsWith(t, <<"-">>)),
                toLowerCase),
            Map(SelectSeq(tokens, LAMBDA t : marked(t, "-")),
                LAMBDA t : toLowerCase(Tail(t))),
            Map(matches,
                LAMBDA m : toLowerCase(SubSeq(query, m.from + 1, m.to - 1))))

(***************************************************************************)
(* parseFieldQuery: name:, type: and obs: terms, then the rest for all     *)
(* fields.                                                                 *)
(***************************************************************************)
FieldPrefixes ==
    {[field |-> "name", prefix |-> <<"n", "a", "m", "e", ":">>],
     [field |-> "type", prefix |-> <<"t", "y", "p", "e", ":">>],
     [field |-> "obs", prefix |-> <<"o", "b", "s", ":">>]}

prefixesAt(text, i) ==
    {p \in FieldPrefixes : startsWithAt(toLowerCase(text), i, p.prefix)}

(* The end of the maximal run of non-whitespace that starts at i. *)
endOfRun(text, i) ==
    IF \E j \in i..Len(text) : isSpace(text[j])
    THEN Min({j \in i..Len(text) : isSpace(text[j])}) - 1
    ELSE Len(text)

(* The match of /(name|type|obs):(?:"([^"]+)"|(\S+))/i at position i:      *)
(* a quoted value if the quotes close around something, otherwise a run of *)
(* non-whitespace; to = 0 when there is none.                              *)
fieldMatchAt(query, i) ==
    IF prefixesAt(query, i) = {} THEN [to |-> 0]
    ELSE LET p == CHOOSE q \in prefixesAt(query, i) : TRUE
             v == i + Len(p.prefix)
         IN  IF v > Len(query) \/ isSpace(query[v]) THEN [to |-> 0]
             ELSE IF query[v] = Quote /\ nextQuote(query, v) > v + 1
                  THEN [field |-> p.field, from |-> i, to |-> nextQuote(query, v),
                        value |-> SubSeq(query, v + 1, nextQuote(query, v) - 1)]
                  ELSE [field |-> p.field, from |-> i, to |-> endOfRun(query, v),
                        value |-> SubSeq(query, v, endOfRun(query, v))]

RECURSIVE fieldMatches(_, _)
fieldMatches(query, i) ==
    IF i > Len(query) THEN <<>>
    ELSE IF fieldMatchAt(query, i).to > 0
         THEN <<fieldMatchAt(query, i)>>
                  \o fieldMatches(query, fieldMatchAt(query, i).to + 1)
         ELSE fieldMatches(query, i + 1)

(* fieldQuery[field]: the value of the last match that names the field. *)
fieldOf(matches, field) ==
    LET K == {k \in DOMAIN matches : matches[k].field = field}
    IN  IF K = {} THEN Undefined ELSE Given(parseQuery(matches[Max(K)].value))

parseFieldQuery(query) ==
    LET matches == fieldMatches(query, 1)
        remainingQuery == trim(blankMatches(query, matches, query))
    IN  [name |-> fieldOf(matches, "name"),
         type |-> fieldOf(matches, "type"),
         obs |-> fieldOf(matches, "obs"),
         all |-> IF remainingQuery # <<>> THEN Given(parseQuery(remainingQuery))
                 ELSE Undefined]

(***************************************************************************)
(* Matching a text against a parsed query.                                 *)
(***************************************************************************)
(* A matcher that asks for an optional term also next to required terms  *)
(* and phrases.                                                            *)
matchesParsedQueryOptionalAlways(text, parsed) ==
    LET lowerText == toLowerCase(text)
    IN  /\ ~(Len(parsed.required) > 0
                /\ some(parsed.required, LAMBDA term : ~includes(lowerText, term)))
        /\ ~some(parsed.excluded, LAMBDA term : includes(lowerText, term))
        /\ ~some(parsed.phrases, LAMBDA phrase : ~includes(lowerText, phrase))
        /\ Len(parsed.optional) > 0
              => some(parsed.optional, LAMBDA term : includes(lowerText, term))

matchesParsedQuery(text, parsed) ==
    LET lowerText == toLowerCase(text)
    IN  /\ ~(Len(parsed.required) > 0
                /\ some(parsed.required, LAMBDA term : ~includes(lowerText, term)))
        /\ ~some(parsed.excluded, LAMBDA term : includes(lowerText, term))
        /\ ~some(parsed.phrases, LAMBDA phrase : ~includes(lowerText, phrase))
        /\ (Len(parsed.optional) > 0 /\ Len(parsed.required) = 0
                /\ Len(parsed.phrases) = 0)
              => some(parsed.optional, LAMBDA term : includes(lowerText, term))

allTextOf(entity) ==
    entity.name \o <<" ">> \o entity.entityType \o <<" ">> \o join(entity.observations)

entityMatchesFieldQuery(entity, fieldQuery) ==
    /\ fieldQuery.name.given => matchesParsedQuery(entity.name, fieldQuery.name.value)
    /\ fieldQuery.type.given
          => matchesParsedQuery(entity.entityType, fieldQuery.type.value)
    /\ fieldQuery.obs.given
          => matchesParsedQuery(join(entity.observations), fieldQuery.obs.value)
    /\ fieldQuery.all.given
          => matchesParsedQuery(allTextOf(entity), fieldQuery.all.value)

(***************************************************************************)
(* Fuzzy matching: edit distance between a word of the text and the term.  *)
(***************************************************************************)
Min3(x, y, z) == Min({x, y, z})

(* Row i of the matrix from row i - 1; cell j is kept at position j + 1. *)
RECURSIVE matrixRow(_, _, _, _, _)
matrixRow(a, b, i, above, row) ==
    LET j == Len(row)
    IN  IF j > Len(b) THEN row
        ELSE matrixRow(a, b, i, above,
                 Append(row,
                        Min3(above[j + 1] + 1,
                             row[j] + 1,
                             above[j] + (IF a[i] = b[j] THEN 0 ELSE 1))))

RECURSIVE matrixFrom(_, _, _, _)
matrixFrom(a, b, i, above) ==
    IF i > Len(a) THEN above
    ELSE matrixFrom(a, b, i + 1, matrixRow(a, b, i, above, <<i>>))

levenshteinDistance(a, b) ==
    matrixFrom(a, b, 1, [j \in 1..(Len(b) + 1) |-> j - 1])[Len(b) + 1]

abs(x) == IF x < 0 THEN -x ELSE x

fuzzyMatch(text, query, maxDistance) ==
    LET words == split(toLowerCase(text))
        queryLower == toLowerCase(query)
        distance == IF maxDistance.given THEN maxDistance.value
                    ELSE Max({1, Len(queryLower) \div 4})
    IN  some(words, LAMBDA word :
            \/ includes(word, queryLower)
            \/ includes(queryLower, word)
            \/ /\ abs(Len(word) - Len(queryLower)) <= distance
               /\ levenshteinDistance(word, queryLower) <= distance)

(***************************************************************************)
(* Relevance scores.                                                       *)
(***************************************************************************)
ExactNameScore == 100

PartialNameScore == 50

TokenNameScore == 30

FuzzyNameScore == 15

ExactTypeScore == 40

TokenTypeScore == 20

FullObservationScore == 15

TokenObservationScore == 10

FuzzyObservationScore == 5

RECURSIVE Sum(_)
Sum(numbers) == IF numbers = <<>> THEN 0 ELSE Head(numbers) + Sum(Tail(numbers))

(* The name compared as stored, without folding its case. *)
nameScoreCaseSensitive(entity, query, fuzzy) ==
    LET queryLower == toLowerCase(query)
        tokens == tokenize(query)
    IN  IF entity.name = queryLower THEN ExactNameScore
        ELSE IF includes(entity.name, queryLower) THEN PartialNameScore
        ELSE IF some(tokens, LAMBDA t : includes(entity.name, t)) THEN TokenNameScore
        ELSE IF fuzzy /\ fuzzyMatch(entity.name, query, Undefined) THEN FuzzyNameScore
        ELSE 0

nameScore(entity, query, fuzzy) ==
    LET queryLower == toLowerCase(query)
        tokens == tokenize(query)
        nameLower == toLowerCase(entity.name)
    IN  IF nameLower = queryLower THEN ExactNameScore
        ELSE IF includes(nameLower, queryLower) THEN PartialNameScore
        ELSE IF some(tokens, LAMBDA t : includes(nameLower, t)) THEN TokenNameScore
        ELSE IF fuzzy /\ fuzzyMatch(entity.name, query, Undefined) THEN FuzzyNameScore
        ELSE 0

typeScore(entity, query) ==
    LET queryLower == toLowerCase(query)
        tokens == tokenize(query)
        typeLower == toLowerCase(entity.entityType)
    IN  IF typeLower = queryLower THEN ExactTypeScore
        ELSE IF some(tokens, LAMBDA t : includes(typeLower, t)) THEN TokenTypeScore
        ELSE 0

observationScore(obs, query, fuzzy) ==
    LET queryLower == toLowerCase(query)
        tokens == tokenize(query)
        obsLower == toLowerCase(obs)
    IN  IF includes(obsLower, queryLower) THEN FullObservationScore
        ELSE IF some(tokens, LAMBDA t : includes(obsLower, t))
             THEN TokenObservationScore
        ELSE IF fuzzy /\ fuzzyMatch(obs, query, Undefined) THEN FuzzyObservationScore
        ELSE 0

scoreEntity(entity, query, fuzzy) ==
    nameScore(entity, query, fuzzy) + typeScore(entity, query)
        + Sum(Map(entity.observations,
                  LAMBDA obs : observationScore(obs, query, fuzzy)))

ExactObservationScore == 100

TokenMatchScore == 20

FuzzyTokenScore == 10

StartBonus == 15

scoreObservation(observation, query, fuzzy) ==
    LET queryLower == toLowerCase(query)
        obsLower == toLowerCase(observation)
        tokens == tokenize(query)
    IN  (IF includes(obsLower, queryLower) THEN ExactObservationScore ELSE 0)
        + Sum(Map(tokens, LAMBDA token :
                  IF includes(obsLower, token) THEN TokenMatchScore
                  ELSE IF fuzzy /\ fuzzyMatch(observation, token, Undefined)
                       THEN FuzzyTokenScore
                  ELSE 0))
        + (IF \/ startsWith(obsLower, queryLower)
              \/ some(tokens, LAMBDA t : startsWith(obsLower, t))
           THEN StartBonus ELSE 0)

(***************************************************************************)
(* searchNodes: filter, score and sort, limit, expand by neighbors, and    *)
(* collect the relations.                                                  *)
(***************************************************************************)
EmptySearch == [entities |-> <<>>, relations |-> <<>>, scores |-> <<>>]

nameSetOf(entities) == {entities[i].name : i \in DOMAIN entities}

hasTerms(parsed) ==
    Len(parsed.required) > 0 \/ Len(parsed.optional) > 0 \/ Len(parsed.phrases) > 0

(* The filter callback: the field query, or with fuzzy the fallback on the *)
(* all-fields terms.                                                       *)
admits(entity, fieldQuery, fuzzy) ==
    IF ~entityMatchesFieldQuery(entity, fieldQuery)
    THEN /\ fuzzy
         /\ fieldQuery.all.given
         /\ some(fieldQuery.all.value.required \o fieldQuery.all.value.optional
                     \o fieldQuery.all.value.phrases,
                 LAMBDA token : fuzzyMatch(allTextOf(entity), token, Undefined))
    ELSE TRUE

(* query.replace(/(name|type|obs):\S+/gi, '') from position i on. *)
RECURSIVE removeFieldTerms(_, _)
removeFieldTerms(query, i) ==
    IF i > Len(query) THEN <<>>
    ELSE IF /\ prefixesAt(query, i) # {}
            /\ LET v == i + Len((CHOOSE q \in prefixesAt(query, i) : TRUE).prefix)
               IN  v <= Len(query) /\ ~isSpace(query[v])
         THEN removeFieldTerms(query, endOfRun(query, i) + 1)
         ELSE <<query[i]>> \o removeFieldTerms(query, i + 1)

Scored(entity, score) == [entity |-> entity, score |-> score]

(* sort((a, b) => b.score - a.score): descending, equal scores keep their  *)
(* order.                                                                  *)
insertScored(sorted, x) ==
    LET k == Cardinality({i \in DOMAIN sorted : sorted[i].score >= x.score})
    IN  SubSeq(sorted, 1, k) \o <<x>> \o SubSeq(sorted, k + 1, Len(sorted))

(* The scored list left in stored order. *)
storedOrder(scored, sorted) == sorted \o scored

RECURSIVE sortScored(_, _)
sortScored(scored, sorted) ==
    IF scored = <<>> THEN sorted
    ELSE sortScored(Tail(scored), insertScored(sorted, Head(scored)))

slice(seq, n) == SubSeq(seq, 1, Min({n, Len(seq)}))

(* The names a Set collects from the relations, in insertion order. *)
RECURSIVE neighborNamesOf(_, _, _)
neighborNamesOf(relations, matchedEntityNames, neighborNames) ==
    IF relations = <<>> THEN neighborNames
    ELSE LET rel == Head(relations)
             addTo(names, n) == IF n \in Range(names) THEN names ELSE Append(names, n)
             first == IF rel.from \in matchedEntityNames
                      THEN addTo(neighborNames, rel.to) ELSE neighborNames
             second == IF rel.to \in matchedEntityNames
                       THEN addTo(first, rel.from) ELSE first
         IN  neighborNamesOf(Tail(relations), matchedEntityNames, second)

RECURSIVE addNeighbors(_, _, _)
addNeighbors(graph, neighborNames, matchedEntities) ==
    IF neighborNames = <<>> THEN matchedEntities
    ELSE LET name == Head(neighborNames)
         IN  IF name \notin nameSetOf(matchedEntities) /\ hasName(graph.entities, name)
             THEN addNeighbors(graph, Tail(neighborNames),
                               Append(matchedEntities,
                                      graph.entities[find(graph.entities, name)]))
             ELSE addNeighbors(graph, Tail(neighborNames), matchedEntities)

(* Only the relations with both ends among the names. *)
closedRelations(graph, matchedEntityNames) ==
    SelectSeq(graph.relations,
              LAMBDA r : r.from \in matchedEntityNames /\ r.to \in matchedEntityNames)

touchingRelations(graph, matchedEntityNames) ==
    SelectSeq(graph.relations,
              LAMBDA r : r.from \in matchedEntityNames \/ r.to \in matchedEntityNames)

searchNodesResult(graph, query, includeNeighbors, fuzzy, limit) ==
    LET fieldQuery == parseFieldQuery(query)
        hasFieldQueries ==
            fieldQuery.name.given \/ fieldQuery.type.given \/ fieldQuery.obs.given
        hasAllQuery == fieldQuery.all.given /\ hasTerms(fieldQuery.all.value)
        filtered == SelectSeq(graph.entities,
                              LAMBDA entity : admits(entity, fieldQuery, fuzzy))
        rawQuery == trim(removeFieldTerms(query, 1))
        scoringQuery == IF rawQuery # <<>> THEN rawQuery ELSE query
        scored == sortScored(
                      Map(filtered, LAMBDA entity :
                          Scored(entity, scoreEntity(entity, scoringQuery, fuzzy))),
                      <<>>)
        limitedScored == IF truthyNumber(limit) THEN slice(scored, limit.value)
                         ELSE scored
        matchedEntities == Map(limitedScored, LAMBDA x : x.entity)
        expanded ==
            IF includeNeighbors /\ nameSetOf(matchedEntities) # {}
            THEN addNeighbors(graph,
                              neighborNamesOf(graph.relations,
                                              nameSetOf(matchedEntities), <<>>),
                              matchedEntities)
            ELSE matchedEntities
    IN  IF trim(query) = <<>> THEN EmptySearch
        ELSE IF ~hasFieldQueries /\ ~hasAllQuery THEN EmptySearch
        ELSE [entities |-> expanded,
              relations |-> touchingRelations(graph, nameSetOf(expanded)),
              scores |-> Map(limitedScored,
                             LAMBDA x : [name |-> x.entity.name, score |-> x.score])]

(***************************************************************************)
(* searchObservations: every observation of every entity, matched,         *)
(* scored, sorted and limited.                                             *)
(***************************************************************************)
DefaultLimit == 10

ObservationMatch(entity, observation, score) ==
    [entityName |-> entity.name, entityType |-> entity.entityType,
     observation |-> observation, score |-> score]

(* query.replace(/[+\-"]/g, ' ') *)
blankOperators(query) ==
    [i \in DOMAIN query |-> IF query[i] \in {"+", "-", Quote} THEN " " ELSE query[i]]

candidate(observation, parsed, fuzzy) ==
    IF ~matchesParsedQuery(observation, parsed)
    THEN /\ fuzzy
         /\ some(parsed.required \o parsed.optional \o parsed.phrases,
                 LAMBDA term : fuzzyMatch(observation, term, Undefined))
    ELSE TRUE

matchesOfEntity(entity, query, parsed, fuzzy) ==
    LET rawQuery == trim(blankOperators(query))
        kept == SelectSeq(entity.observations, LAMBDA observation :
                    /\ candidate(observation, parsed, fuzzy)
                    /\ scoreObservation(observation, rawQuery, fuzzy) > 0)
    IN  Map(kept, LAMBDA observation :
            ObservationMatch(entity, observation,
                             scoreObservation(observation, rawQuery, fuzzy)))

RECURSIVE allMatchesOf(_, _, _, _)
allMatchesOf(entities, query, parsed, fuzzy) ==
    IF entities = <<>> THEN <<>>
    ELSE matchesOfEntity(Head(entities), query, parsed, fuzzy)
             \o allMatchesOf(Tail(entities), query, parsed, fuzzy)

searchObservationsResult(graph, query, limit, includeEntity, fuzzy) ==
    LET allMatches == sortScored(
                          allMatchesOf(graph.entities, query, parseQuery(query), fuzzy),
                          <<>>)
        limitedMatches ==
            slice(allMatches, IF limit.given THEN limit.value ELSE DefaultLimit)
        entityNames == {limitedMatches[i].entityName : i \in DOMAIN limitedMatches}
    IN  IF trim(query) = <<>> THEN [matches |-> <<>>, entities |-> Undefined]
        ELSE [matches |-> limitedMatches,
              entities |->
                  IF includeEntity /\ Len(limitedMatches) > 0
                  THEN Given(SelectSeq(graph.entities,
                                       LAMBDA e : e.name \in entityNames))
                  ELSE Undefined]

(***************************************************************************)
(* openNodes, filterByType, filterRelations: entities kept by a test and   *)
(* the relations that go with them.                                        *)
(***************************************************************************)
truthyText(x) == x.given /\ x.value # <<>>

openNodesResult(graph, names) ==
    LET filteredEntities ==
            SelectSeq(graph.entities, LAMBDA e : e.name \in Range(names))
        filteredEntityNames == nameSetOf(filteredEntities)
    IN  KnowledgeGraph(
            filteredEntities,
            SelectSeq(graph.relations,
                      LAMBDA r : r.from \in filteredEntityNames
                                 /\ r.to \in filteredEntityNames))

filterByTypeResult(graph, entityType) ==
    LET filteredEntities ==
            SelectSeq(graph.entities,
                      LAMBDA e : toLowerCase(e.entityType) = toLowerCase(entityType))
        entityNames == nameSetOf(filteredEntities)
    IN  KnowledgeGraph(
            filteredEntities,
            SelectSeq(graph.relations,
                      LAMBDA r : r.from \in entityNames /\ r.to \in entityNames))

filterRelationsResult(graph, options) ==
    LET keeps(r) ==
            /\ ~(/\ truthyText(options.relationType)
                 /\ toLowerCase(r.relationType)
                        # toLowerCase(options.relationType.value))
            /\ ~(truthyText(options.fromEntity) /\ r.from # options.fromEntity.value)
            /\ ~(truthyText(options.toEntity) /\ r.to # options.toEntity.value)
        filteredRelations == SelectSeq(graph.relations, keeps)
        entityNames ==
            {filteredRelations[i].from : i \in DOMAIN filteredRelations}
            \cup {filteredRelations[i].to : i \in DOMAIN filteredRelations}
    IN  [relations |-> filteredRelations,
         entities |-> SelectSeq(graph.entities, LAMBDA e : e.name \in entityNames)]

(***************************************************************************)
(* filterByObservation: a preset looked up by the lower-cased pattern, or  *)
(* the pattern compiled as a case-insensitive regular expression.  The     *)
(* custom patterns of the model are letters and spaces, which as a regular *)
(* expression match where they occur.                                      *)
(***************************************************************************)
isDigit(c) == c \in {"0", "1", "2", "3", "4", "5", "6", "7", "8", "9"}

PresetNames ==
    [dated |-> <<"d", "a", "t", "e", "d">>,
     techdebt |-> <<"t", "e", "c", "h", "d", "e", "b", "t">>,
     deprecated |-> <<"d", "e", "p", "r", "e", "c", "a", "t", "e", "d">>,
     purpose |-> <<"p", "u", "r", "p", "o", "s", "e">>,
     quirk |-> <<"q", "u", "i", "r", "k">>]

(* /^\[\d{4}-\d{2}-\d{2}\]/ *)
datedTest(obs) ==
    /\ Len(obs) >= 12
    /\ obs[1] = "[" /\ obs[6] = "-" /\ obs[9] = "-" /\ obs[12] = "]"
    /\ \A i \in {2, 3, 4, 5, 7, 8, 10, 11} : isDigit(obs[i])

(* /tech\s*debt|TODO|FIXME|HACK/i *)
techdebtTest(obs) ==
    LET lower == toLowerCase(obs)
        tech == <<"t", "e", "c", "h">>
        debt == <<"d", "e", "b", "t">>
    IN  \/ \E i \in DOMAIN lower : \E j \in (i + 4)..Len(lower) :
              /\ startsWithAt(lower, i, tech)
              /\ \A k \in (i + 4)..(j - 1) : isSpace(lower[k])
              /\ startsWithAt(lower, j, debt)
        \/ includes(lower, <<"t", "o", "d", "o">>)
        \/ includes(lower, <<"f", "i", "x", "m", "e">>)
        \/ includes(lower, <<"h", "a", "c", "k">>)

regexTest(pattern, obs) ==
    LET key == toLowerCase(pattern)
        lower == toLowerCase(obs)
    IN  IF key = PresetNames.dated THEN datedTest(obs)
        ELSE IF key = PresetNames.techdebt THEN techdebtTest(obs)
        ELSE IF key = PresetNames.deprecated THEN includes(lower, PresetNames.deprecated)
        ELSE IF key = PresetNames.purpose
             THEN includes(lower, PresetNames.purpose \o <<":">>)
        ELSE IF key = PresetNames.quirk THEN includes(lower, PresetNames.quirk \o <<":">>)
        ELSE includes(lower, key)

filterByObservationResult(graph, pattern) ==
    SelectSeq(graph.entities,
              LAMBDA e : some(e.observations, LAMBDA obs : regexTest(pattern, obs)))

(***************************************************************************)
(* Argument domains.                                                       *)
(***************************************************************************)
Names == {"A", "B", "C"}

StoreNames == {"A", "B"}

(* Arguments of the store operations: two names, so that a batch can name   *)
(* a stored and a missing entity; the same name with two types; a contents *)
(* list that repeats a string.                                             *)
EntityArgs ==
    {Entity("A", "t", <<>>), Entity("A", "u", <<"x">>), Entity("B", "t", <<>>)}

RelationArgs == {Relation("A", "B", "r"), Relation("B", "B", "r")}

ObservationArgs ==
    {[entityName |-> "A", contents |-> <<"y", "y">>],
     [entityName |-> "B", contents |-> <<"x">>]}

DeletionArgs ==
    {[entityName |-> "A", observations |-> <<"y">>],
     [entityName |-> "B", observations |-> <<"x">>]}

(* Arguments that build the graphs the traversals run on: plain entities   *)
(* and one-relation calls over three names, with a two-way pair, a         *)
(* self-relation and, while an end is not yet created, dangling relations. *)
PlainEntityArgs == {<<Entity(n, "t", <<>>)>> : n \in Names}

EdgeArgs ==
    {<<Relation("A", "B", "r")>>, <<Relation("B", "A", "r")>>,
     <<Relation("C", "B", "r")>>, <<Relation("A", "C", "r")>>,
     <<Relation("B", "B", "r")>>}

(* Relations of two types among three names, a self-relation among them,  *)
(* and the optional arguments of getNeighbors: each direction or none, a   *)
(* type filter that is absent, empty, or one of the two types.             *)
TypedEdgeArgs ==
    {<<Relation("A", "B", "r")>>, <<Relation("B", "A", "s")>>,
     <<Relation("A", "A", "r")>>, <<Relation("C", "A", "s")>>}

Directions == {Undefined} \cup {Given(d) : d \in {"incoming", "outgoing", "both"}}

RelationTypeFilters == {Undefined} \cup {Given(t) : t \in {"", "r", "s"}}

(* The texts of the search engine's graphs and queries. *)
Ann == <<"A", "n", "n">>

Bob == <<"B", "o", "b">>

Cy == <<"C", "y">>

ann == <<"a", "n", "n">>

bob == <<"b", "o", "b">>

dev == <<"d", "e", "v">>

ops == <<"o", "p", "s">>

rust == <<"r", "u", "s", "t">>

uses == <<"u", "s", "e", "s">>

knows == <<"k", "n", "o", "w", "s">>

(* Three entities: two of one type, one without observations; the name of  *)
(* the first occurs in an observation of the second.  A batch that names   *)
(* the second twice stores two entities of one name.                       *)
SearchEntityArgs ==
    {<<Entity(Ann, dev, <<join(<<uses, rust>>)>>)>>,
     <<Entity(Bob, dev, <<join(<<knows, ann>>), ann>>)>>,
     <<Entity(Cy, ops, <<>>)>>,
     <<Entity(Bob, dev, <<join(<<knows, ann>>), ann>>), Entity(Bob, ops, <<>>)>>}

(* A chain Ann - Bob - Cy, dangling while an end is not created. *)
SearchEdgeArgs == {<<Relation(Ann, Bob, "r")>>, <<Relation(Bob, Cy, "r")>>}

(* A name, an excluded term, a name: scope next to an all-fields term, a   *)
(* type: scope alone, a phrase, required terms, and two queries without    *)
(* a term.                                                                 *)
Queries ==
    {ann,
     dev \o <<" ">> \o uses \o <<" ", "-">> \o rust,
     <<"n", "a", "m", "e", ":">> \o bob \o <<" ">> \o dev,
     <<"t", "y", "p", "e", ":">> \o dev,
     <<Quote>> \o uses \o <<" ">> \o rust \o <<Quote>>,
     <<"+">> \o dev \o <<" ", "+">> \o ann,
     <<"-">> \o rust,
     <<" ">>}

MaxLimit == 2

Limits == {Undefined} \cup {Given(n) : n \in 0..MaxLimit}

(* Entities to score against a query that is a name: the name in either   *)
(* case and a longer name that contains it, a type that may equal the      *)
(* query, and observation lists that contain it zero to two times.         *)
ScoredEntities ==
    {Entity(n, t, o) : n \in {Ann, ann, ann \o <<"a">>},
                       t \in {dev, ann},
                       o \in {<<>>, <<ann>>, <<ann, join(<<knows, ann>>)>>}}

ScoreQueries == {ann, Ann}

(* The graphs every read operation runs on: three entities with texts, a   *)
(* marker among the observations, a chain of two relations with typed      *)
(* ends that dangle while an end is not stored, and the arguments of the   *)
(* filters: a type in either case, optional criteria that are absent,      *)
(* empty or set, a custom pattern and a preset in either case.             *)
TextNames == {Ann, Bob, Cy}

ReadEntityArgs ==
    {<<Entity(Ann, dev, <<join(<<uses, rust>>)>>)>>,
     <<Entity(Bob, dev, <<join(<<knows, ann>>), <<"T", "O", "D", "O">>>>)>>,
     <<Entity(Cy, ops, <<>>)>>}

ReadEdgeArgs == {<<Relation(Ann, Bob, uses)>>, <<Relation(Bob, Cy, knows)>>}

ReadQueries == {ann, <<"t", "y", "p", "e", ":">> \o dev}

ObservationQueries == {ann, rust}

TypeArgs == {dev, ops, <<"D", "e", "v">>}

RelationTypeArgs == {Undefined, Given(<<>>), Given(uses), Given(<<"K", "n", "o", "w", "s">>)}

FromArgs == {Undefined, Given(Ann)}

ToArgs == {Undefined, Given(<<>>), Given(Bob)}

Patterns == {rust, PresetNames.techdebt, <<"T", "e", "c", "h", "D", "e", "b", "t">>}

(* The graphs the loop of findPath is followed on: entities A and B, with   *)
(* or without C, under every list of up to MaxRelations different          *)
(* relations of EdgeArgs.  Each is the graph left by creating the entities *)
(* and then the relations one call at a time, in that order.               *)
PathEntityLists ==
    {<<Entity("A", "t", <<>>), Entity("B", "t", <<>>)>>,
     <<Entity("A", "t", <<>>), Entity("B", "t", <<>>), Entity("C", "t", <<>>)>>}

PathRelationLists ==
    {rs \in SeqsUpTo({relations[1] : relations \in EdgeArgs}, MaxRelations) :
        \A i, j \in DOMAIN rs : i # j => rs[i] # rs[j]}

PathGraphs ==
    {KnowledgeGraph(es, rs) : es \in PathEntityLists, rs \in PathRelationLists}

(* Query tokens: bare signs, signed terms in either case, a plain term and *)
(* a quoted phrase; a query is up to MaxArgLen of them joined by spaces.   *)
QueryTokens ==
    {<<"+">>, <<"-">>, <<"+">> \o Ann, <<"-">> \o rust, <<"D", "e", "v">>,
     <<Quote>> \o uses \o <<" ">> \o rust \o <<Quote>>}

QueryStrings == {join(tokens) : tokens \in SeqsUpTo(QueryTokens, MaxArgLen)}

(* Texts as the matcher receives them: all the text of an entity with and  *)
(* without observations, a name, and no observations joined.               *)
MatchedTexts ==
    {allTextOf(Entity(Ann, dev, <<join(<<uses, rust>>)>>)),
     allTextOf(Entity(Cy, ops, <<>>)),
     Bob,
     <<>>}

(* Term lists as the parser leaves them: lower case, and no whitespace but *)
(* in a phrase.                                                            *)
RequiredTerms == {<<>>, <<ann>>, <<ann, bob>>}

OptionalTerms == {<<>>, <<rust>>, <<bob>>, <<bob, rust>>}

ExcludedTerms == {<<>>, <<dev>>, <<bob>>}

PhraseTerms == {<<>>, <<join(<<uses, rust>>)>>, <<join(<<ann, bob>>)>>}

(* Terms of the fuzzy fallback: a name, a name with one letter changed, a  *)
(* word with a letter added, a letter, and a term far from every word.     *)
FuzzyTerms == {ann, <<"a", "n", "m">>, rust \o <<"y">>, <<"s">>, <<"z", "z", "z", "z">>}

(* The mutating calls that run concurrently. *)
TaskCalls ==
    {[op |-> "createEntities", args |-> <<Entity("A", "t", <<>>)>>],
     [op |-> "createEntities", args |-> <<Entity("B", "t", <<>>)>>],
     [op |-> "deleteEntities", args |-> <<"A">>]}

(***************************************************************************)
(* Calls in flight.                                                        *)
(***************************************************************************)
Idle == [op |-> "idle", args |-> <<>>]

NoResponse == [kind |-> "none", value |-> <<>>]

Ok(v) == [kind |-> "ok", value |-> v]

NotFound == [kind |-> "error", value |-> "not found"]

Tasks == 1..NumTasks

IdleTask ==
    [pc |-> "idle", op |-> "none", args |-> <<>>, graph |-> EmptyGraph,
     ret |-> NoResponse, order |-> 0]

(* The names deleted and not created again, once the call has run: after  *)
(* deleteEntities none of the listed names is stored, after createEntities *)
(* every listed name is.                                                   *)
goneAfter(op, args) ==
    IF op = "deleteEntities" THEN gone \cup Range(args)
    ELSE IF op = "createEntities" THEN gone \ {args[i].name : i \in DOMAIN args}
    ELSE gone

Begin(op, args) ==
    /\ call.op = "idle"
    /\ call' = [op |-> op, args |-> args]
    /\ pre' = file
    /\ gone' = goneAfter(op, args)
    /\ UNCHANGED tasks

Init ==
    /\ file = NoFile
    /\ call = Idle
    /\ pre = NoFile
    /\ ret = NoResponse
    /\ tasks = [t \in Tasks |-> IdleTask]
    /\ gone = {}

(***************************************************************************)
(* The mutating operations: load, change, save, return.                    *)
(***************************************************************************)
createEntities(entities) ==
    LET r == createEntitiesResult(loadGraph(file), entities)
    IN  /\ Begin("createEntities", entities)
        /\ Len(r.graph.entities) <= MaxEntities
        /\ file' = saveGraph(r.graph)
        /\ ret' = Ok(r.value)

createRelations(relations) ==
    LET r == createRelationsResult(loadGraph(file), relations)
    IN  /\ Begin("createRelations", relations)
        /\ Len(r.graph.relations) <= MaxRelations
        /\ file' = saveGraph(r.graph)
        /\ ret' = Ok(r.value)

(* createRelations as a caller issues it who names only stored entities. *)
createRelationsOfStored(relations) ==
    /\ \A i \in DOMAIN relations :
          /\ relations[i].from \in entityNamesOf(loadGraph(file))
          /\ relations[i].to \in entityNamesOf(loadGraph(file))
    /\ createRelations(relations)

(* A batch that saves what it has applied before it throws. *)
addObservationsSavingPartial(observations) ==
    LET r == addObservationsMap(loadGraph(file), observations, <<>>)
    IN  /\ Begin("addObservations", observations)
        /\ file' = saveGraph(r.graph)
        /\ ret' = IF r.threw THEN NotFound ELSE Ok(r.results)

addObservations(observations) ==
    LET r == addObservationsMap(loadGraph(file), observations, <<>>)
    IN  /\ Begin("addObservations", observations)
        /\ IF r.threw
           THEN file' = file /\ ret' = NotFound
           ELSE file' = saveGraph(r.graph) /\ ret' = Ok(r.results)

deleteEntities(entityNames) ==
    /\ Begin("deleteEntities", entityNames)
    /\ file' = saveGraph(deleteEntitiesResult(loadGraph(file), entityNames))
    /\ ret' = Ok(<<>>)

(* A delete that, like addObservations, fails on a missing entity. *)
deleteObservationsStrict(deletions) ==
    LET graph == loadGraph(file)
        missing == \E i \in DOMAIN deletions :
                       ~hasName(graph.entities, deletions[i].entityName)
    IN  /\ Begin("deleteObservations", deletions)
        /\ IF missing
           THEN file' = file /\ ret' = NotFound
           ELSE file' = saveGraph(deleteObservationsEach(graph, deletions))
                /\ ret' = Ok(<<>>)

deleteObservations(deletions) ==
    /\ Begin("deleteObservations", deletions)
    /\ file' = saveGraph(deleteObservationsEach(loadGraph(file), deletions))
    /\ ret' = Ok(<<>>)

deleteRelations(relations) ==
    /\ Begin("deleteRelations", relations)
    /\ file' = saveGraph(deleteRelationsResult(loadGraph(file), relations))
    /\ ret' = Ok(<<>>)

(***************************************************************************)
(* The traversals: load, compute, return; the file is not written.         *)
(***************************************************************************)
findPath(fromEntity, toEntity, maxDepth) ==
    /\ Begin("findPath",
             [fromEntity |-> fromEntity, toEntity |-> toEntity, maxDepth |-> maxDepth])
    /\ ret' = Ok(findPathResult(loadGraph(file), fromEntity, toEntity, maxDepth))
    /\ UNCHANGED file

getSubgraph(entityNames, depth) ==
    /\ Begin("getSubgraph", [entityNames |-> entityNames, depth |-> depth])
    /\ ret' = Ok(getSubgraphResult(loadGraph(file), entityNames, depth))
    /\ UNCHANGED file

getNeighbors(entityName, direction, relationType) ==
    /\ Begin("getNeighbors",
             [entityName |-> entityName, direction |-> direction,
              relationType |-> relationType])
    /\ ret' = Ok(getNeighborsResult(loadGraph(file), entityName,
                                    IF direction.given THEN direction.value ELSE "both",
                                    relationType))
    /\ UNCHANGED file

(***************************************************************************)
(* findPath with its loop taken one iteration at a time.  While the call   *)
(* runs, ret holds the entity map and the adjacency lists built before the *)
(* loop, the queue, the visited set and, in order, the names whose         *)
(* adjacency list has been walked.                                         *)
(***************************************************************************)
Running(v) == [kind |-> "running", value |-> v]

(* A visited set that is never added to. *)
addVisitedNever(visited, name) == visited

addVisited(visited, name) == visited \cup {name}

findPathStart(fromEntity, toEntity, maxDepth) ==
    LET graph == loadGraph(file)
    IN  /\ Begin("findPath",
                 [fromEntity |-> fromEntity, toEntity |-> toEntity,
                  maxDepth |-> maxDepth])
        /\ ret' =
              IF \/ fromEntity \notin entityNamesOf(graph)
                 \/ toEntity \notin entityNamesOf(graph)
              THEN Ok(NullPath)
              ELSE IF fromEntity = toEntity
              THEN Ok(PathResult(<<entityMap(graph)[fromEntity]>>, <<>>))
              ELSE Running([entityMap |-> entityMap(graph),
                            adjacency |-> adjacency(graph),
                            queue |-> <<[name |-> fromEntity, path |-> <<fromEntity>>,
                                        relations |-> <<>>]>>,
                            visited |-> {},
                            expanded |-> <<>>])
        /\ UNCHANGED file

findPathStep ==
    /\ call.op = "findPath"
    /\ ret.kind = "running"
    /\ LET queue == ret.value.queue
           visited == ret.value.visited
           current == Head(queue)
           adj == IF current.name \in DOMAIN ret.value.adjacency
                  THEN ret.value.adjacency[current.name]
                  ELSE <<>>
       IN  ret' =
             IF queue = <<>> THEN Ok(NullPath)
             ELSE IF current.name = call.args.toEntity
             THEN Ok(PathResult([i \in 1..Len(current.path) |->
                                    ret.value.entityMap[current.path[i]]],
                                current.relations))
             ELSE IF tooDeep(current, call.args.maxDepth) \/ current.name \in visited
             THEN Running([ret.value EXCEPT !.queue = Tail(queue)])
             ELSE Running([ret.value EXCEPT
                             !.queue = Tail(queue)
                                          \o expand(current, adj,
                                                    addVisited(visited, current.name)),
                             !.visited = addVisited(visited, current.name),
                             !.expanded = Append(ret.value.expanded, current.name)])
    /\ UNCHANGED <<file, call, pre, tasks, gone>>

(***************************************************************************)
(* The searches: load, compute, return; the file is not written.           *)
(***************************************************************************)
searchNodes(query, includeNeighbors, fuzzy, limit) ==
    /\ Begin("searchNodes",
             [query |-> query, includeNeighbors |-> includeNeighbors,
              fuzzy |-> fuzzy, limit |-> limit])
    /\ ret' = Ok(searchNodesResult(loadGraph(file), query, includeNeighbors,
                                   fuzzy, limit))
    /\ UNCHANGED file

searchObservations(query, limit, includeEntity, fuzzy) ==
    /\ Begin("searchObservations",
             [query |-> query, limit |-> limit, includeEntity |-> includeEntity,
              fuzzy |-> fuzzy])
    /\ ret' = Ok(searchObservationsResult(loadGraph(file), query, limit,
                                          includeEntity, fuzzy))
    /\ UNCHANGED file

(***************************************************************************)
(* The filters: load, compute, return; the file is not written.            *)
(***************************************************************************)
openNodes(names) ==
    /\ Begin("openNodes", names)
    /\ ret' = Ok(openNodesResult(loadGraph(file), names))
    /\ UNCHANGED file

filterByType(entityType) ==
    /\ Begin("filterByType", entityType)
    /\ ret' = Ok(filterByTypeResult(loadGraph(file), entityType))
    /\ UNCHANGED file

filterRelations(relationType, fromEntity, toEntity) ==
    LET options == [relationType |-> relationType, fromEntity |-> fromEntity,
                    toEntity |-> toEntity]
    IN  /\ Begin("filterRelations", options)
        /\ ret' = Ok(filterRelationsResult(loadGraph(file), options))
        /\ UNCHANGED file

filterByObservation(pattern) ==
    /\ Begin("filterByObservation", pattern)
    /\ ret' = Ok(filterByObservationResult(loadGraph(file), pattern))
    /\ UNCHANGED file

(***************************************************************************)
(* The parser, the matcher and the fuzzy matcher applied to their          *)
(* arguments.                                                              *)
(***************************************************************************)
parseQueryCall(query) ==
    /\ Begin("parseQuery", [query |-> query])
    /\ ret' = Ok(parseQuery(query))
    /\ UNCHANGED file

matchesParsedQueryCall(text, parsed) ==
    /\ Begin("matchesParsedQuery", [text |-> text, parsed |-> parsed])
    /\ ret' = Ok(matchesParsedQuery(text, parsed))
    /\ UNCHANGED file

fuzzyMatchCall(text, query) ==
    /\ Begin("fuzzyMatch", [text |-> text, query |-> query])
    /\ ret' = Ok(fuzzyMatch(text, query, Undefined))
    /\ UNCHANGED file

(***************************************************************************)
(* The scorer applied to two entities under one query.                     *)
(***************************************************************************)
scoreEntities(first, second, query, fuzzy) ==
    /\ Begin("scoreEntity",
             [first |-> first, second |-> second, query |-> query, fuzzy |-> fuzzy])
    /\ ret' = Ok(<<scoreEntity(first, query, fuzzy), scoreEntity(second, query, fuzzy)>>)
    /\ UNCHANGED file

(***************************************************************************)
(* readGraph: the graph as loaded.                                         *)
(***************************************************************************)
readGraph ==
    /\ Begin("readGraph", <<>>)
    /\ ret' = Ok(loadGraph(file))
    /\ UNCHANGED file

(***************************************************************************)
(* Concurrent mutating calls.  A call awaits loadGraph, then changes the   *)
(* graph it loaded and awaits saveGraph; other calls run between the two   *)
(* awaits, and nothing locks the file.                                     *)
(***************************************************************************)
mutation(op, graph, args) ==
    IF op = "createEntities" THEN createEntitiesResult(graph, args)
    ELSE [graph |-> deleteEntitiesResult(graph, args), value |-> <<>>]

load(t, c) ==
    /\ call.op = "idle"
    /\ tasks[t].pc = "idle"
    /\ tasks' = [tasks EXCEPT ![t] =
                    [pc |-> "loaded", op |-> c.op, args |-> c.args,
                     graph |-> loadGraph(file), ret |-> NoResponse, order |-> 0]]
    /\ UNCHANGED <<file, call, pre, ret, gone>>

(* The save preceded by a fresh load, as under a lock around the call. *)
saveReloading(t) ==
    LET r == mutation(tasks[t].op, loadGraph(file), tasks[t].args)
    IN  /\ tasks[t].pc = "loaded"
        /\ file' = saveGraph(r.graph)
        /\ tasks' = [tasks EXCEPT ![t].pc = "done", ![t].ret = Ok(r.value),
                                  ![t].order = 1 + Max({tasks[u].order : u \in Tasks})]
        /\ gone' = goneAfter(tasks[t].op, tasks[t].args)
        /\ UNCHANGED <<call, pre, ret>>

save(t) ==
    LET r == mutation(tasks[t].op, tasks[t].graph, tasks[t].args)
    IN  /\ tasks[t].pc = "loaded"
        /\ file' = saveGraph(r.graph)
        /\ tasks' = [tasks EXCEPT ![t].pc = "done", ![t].ret = Ok(r.value),
                                  ![t].order = 1 + Max({tasks[u].order : u \in Tasks})]
        /\ gone' = goneAfter(tasks[t].op, tasks[t].args)
        /\ UNCHANGED <<call, pre, ret>>

(* The responses of a round of calls are delivered. *)
settle ==
    /\ \E t \in Tasks : tasks[t].pc = "done"
    /\ \A t \in Tasks : tasks[t].pc # "loaded"
    /\ tasks' = [t \in Tasks |-> IdleTask]
    /\ UNCHANGED <<file, call, pre, ret, gone>>

(***************************************************************************)
(* The response is delivered and the caller may issue the next call.       *)
(***************************************************************************)
Respond ==
    /\ call.op # "idle"
    /\ ret.kind # "running"
    /\ call' = Idle
    /\ ret' = NoResponse
    /\ pre' = file
    /\ UNCHANGED <<file, tasks, gone>>

Next ==
    \/ \E entities \in SeqsUpTo(EntityArgs, MaxArgLen) : createEntities(entities)
    \/ \E relations \in SeqsUpTo(RelationArgs, MaxArgLen) : createRelations(relations)
    \/ \E observations \in SeqsUpTo(ObservationArgs, MaxArgLen) :
          addObservations(observations)
    \/ \E entityNames \in SeqsUpTo(StoreNames, MaxArgLen) : deleteEntities(entityNames)
    \/ \E deletions \in SeqsUpTo(DeletionArgs, MaxArgLen) : deleteObservations(deletions)
    \/ \E relations \in SeqsUpTo(RelationArgs, MaxArgLen) : deleteRelations(relations)
    \/ Respond

Spec == Init /\ [][Next]_vars

(***************************************************************************)
(* The traversals over the graphs that create calls build.                 *)
(***************************************************************************)
NextGraph ==
    \/ \E entities \in PlainEntityArgs : createEntities(entities)
    \/ \E relations \in EdgeArgs : createRelations(relations)
    \/ \E a \in Names, b \in Names, maxDepth \in 0..MaxDepth : findPath(a, b, maxDepth)
    \/ \E entityNames \in SeqsUpTo(Names, MaxArgLen), depth \in 0..MaxDepth :
          getSubgraph(entityNames, depth)
    \/ Respond

SpecGraph == Init /\ [][NextGraph]_vars

(***************************************************************************)
(* getNeighbors over graphs with typed relations.                          *)
(***************************************************************************)
NextNeighbors ==
    \/ \E entities \in PlainEntityArgs : createEntities(entities)
    \/ \E relations \in TypedEdgeArgs : createRelations(relations)
    \/ \E entityName \in Names, direction \in Directions,
          relationType \in RelationTypeFilters :
          getNeighbors(entityName, direction, relationType)
    \/ Respond

SpecNeighbors == Init /\ [][NextNeighbors]_vars

(***************************************************************************)
(* The searches over graphs of texts.                                      *)
(***************************************************************************)
NextSearch ==
    \/ \E entities \in SearchEntityArgs : createEntities(entities)
    \/ \E relations \in SearchEdgeArgs : createRelations(relations)
    \/ \E query \in Queries, includeNeighbors \in BOOLEAN, fuzzy \in BOOLEAN,
          limit \in Limits :
          searchNodes(query, includeNeighbors, fuzzy, limit)
    \/ \E query \in Queries, limit \in Limits, includeEntity \in BOOLEAN,
          fuzzy \in BOOLEAN :
          searchObservations(query, limit, includeEntity, fuzzy)
    \/ Respond

SpecSearch == Init /\ [][NextSearch]_vars

(***************************************************************************)
(* The scorer over pairs of entities.                                      *)
(***************************************************************************)
NextScore ==
    \/ \E first \in ScoredEntities, second \in ScoredEntities,
          query \in ScoreQueries, fuzzy \in BOOLEAN :
          scoreEntities(first, second, query, fuzzy)
    \/ Respond

SpecScore == Init /\ [][NextScore]_vars

(***************************************************************************)
(* The store operations with readGraph.                                    *)
(***************************************************************************)
NextStore ==
    \/ Next
    \/ readGraph

SpecStore == Init /\ [][NextStore]_vars

(***************************************************************************)
(* Mutating calls that interleave.                                         *)
(***************************************************************************)
NextConcurrent ==
    \/ \E t \in Tasks, c \in TaskCalls : load(t, c)
    \/ \E t \in Tasks : save(t)
    \/ settle

SpecConcurrent == Init /\ [][NextConcurrent]_vars

(***************************************************************************)
(* Every read operation, between creates and deletes of entities.          *)
(***************************************************************************)
NextReads ==
    \/ \E entities \in ReadEntityArgs : createEntities(entities)
    \/ \E relations \in ReadEdgeArgs : createRelations(relations)
    \/ \E entityNames \in SeqsUpTo(TextNames, MaxArgLen) : deleteEntities(entityNames)
    \/ readGraph
    \/ \E query \in ReadQueries, fuzzy \in BOOLEAN :
          searchNodes(query, TRUE, fuzzy, Undefined)
    \/ \E query \in ObservationQueries, fuzzy \in BOOLEAN :
          searchObservations(query, Undefined, TRUE, fuzzy)
    \/ \E names \in SeqsUpTo(TextNames, MaxArgLen) : openNodes(names)
    \/ \E entityName \in TextNames, direction \in Directions :
          getNeighbors(entityName, direction, Undefined)
    \/ \E a \in TextNames, b \in TextNames, maxDepth \in 0..MaxDepth :
          findPath(a, b, maxDepth)
    \/ \E entityNames \in SeqsUpTo(TextNames, MaxArgLen), depth \in 0..MaxDepth :
          getSubgraph(entityNames, depth)
    \/ \E entityType \in TypeArgs : filterByType(entityType)
    \/ \E relationType \in RelationTypeArgs, fromEntity \in FromArgs,
          toEntity \in ToArgs :
          filterRelations(relationType, fromEntity, toEntity)
    \/ \E pattern \in Patterns : filterByObservation(pattern)
    \/ Respond

SpecReads == Init /\ [][NextReads]_vars

(***************************************************************************)
(* findPath by iterations, on a file that earlier calls have written.  A   *)
(* call that has started runs its loop without awaiting anything, so an    *)
(* iteration that can run does run.                                        *)
(***************************************************************************)
InitPath ==
    /\ file \in {saveGraph(graph) : graph \in PathGraphs}
    /\ call = Idle
    /\ pre = file
    /\ ret = NoResponse
    /\ tasks = [t \in Tasks |-> IdleTask]
    /\ gone = {}

NextPath ==
    \/ \E a \in Names, b \in Names, maxDepth \in 0..MaxDepth :
          findPathStart(a, b, maxDepth)
    \/ findPathStep
    \/ Respond

SpecPath == InitPath /\ [][NextPath]_vars /\ WF_vars(findPathStep)

(***************************************************************************)
(* The store operations in the histories where every createRelations call  *)
(* names only entities that are stored when it is made.                    *)
(***************************************************************************)
NextIntegrity ==
    \/ \E entities \in SeqsUpTo(EntityArgs, MaxArgLen) : createEntities(entities)
    \/ \E relations \in SeqsUpTo(RelationArgs, MaxArgLen) :
          createRelationsOfStored(relations)
    \/ \E observations \in SeqsUpTo(ObservationArgs, MaxArgLen) :
          addObservations(observations)
    \/ \E entityNames \in SeqsUpTo(StoreNames, MaxArgLen) : deleteEntities(entityNames)
    \/ \E deletions \in SeqsUpTo(DeletionArgs, MaxArgLen) : deleteObservations(deletions)
    \/ \E relations \in SeqsUpTo(RelationArgs, MaxArgLen) : deleteRelations(relations)
    \/ Respond

SpecIntegrity == Init /\ [][NextIntegrity]_vars

(***************************************************************************)
(* The parser and the matchers over query strings, texts and term lists.   *)
(***************************************************************************)
NextText ==
    \/ \E query \in QueryStrings : parseQueryCall(query)
    \/ \E text \in MatchedTexts, required \in RequiredTerms,
          optional \in OptionalTerms, excluded \in ExcludedTerms,
          phrases \in PhraseTerms :
          matchesParsedQueryCall(text,
                                 ParsedQuery(required, optional, excluded, phrases))
    \/ \E text \in MatchedTexts, query \in FuzzyTerms : fuzzyMatchCall(text, query)
    \/ Respond

SpecText == Init /\ [][NextText]_vars

(***************************************************************************)
(* Vocabulary of the properties: the stored graph now and before the call  *)
(* in flight, and sequences described by the positions they keep.          *)
(***************************************************************************)
stored == loadGraph(file)

before == loadGraph(pre)

NthOf(K, k) == CHOOSE i \in K : Cardinality({j \in K : j <= i}) = k

KeptAt(seq, K) == [k \in 1..Cardinality(K) |-> seq[NthOf(K, k)]]

NoRepeat(seq) == \A i, j \in DOMAIN seq : i # j => seq[i] # seq[j]

namesIn(entities) == {entities[i].name : i \in DOMAIN entities}

touches(r, E) == r.from \in E \/ r.to \in E

(***************************************************************************)
(* C1: after any sequence of store operations, no two stored entities      *)
(* have the same name.                                                     *)
(***************************************************************************)
EntityNamesUnique ==
    \A i, j \in DOMAIN stored.entities :
        i # j => stored.entities[i].name # stored.entities[j].name

(***************************************************************************)
(* C2: after any sequence of store operations, no two stored relations     *)
(* have the same (from, to, relationType) triple.                          *)
(***************************************************************************)
RelationTriplesUnique ==
    \A i, j \in DOMAIN stored.relations :
        i # j => ~sameTriple(stored.relations[i], stored.relations[j])

(***************************************************************************)
(* C3: deleteEntities(E) removes exactly the entities named in E and       *)
(* exactly the relations with an end in E; every other entity (type and    *)
(* observations included) and relation stays, in its original order.       *)
(***************************************************************************)
CascadeDeleteExact ==
    call.op = "deleteEntities" =>
        LET E == Range(call.args)
            keptEntities ==
                {i \in DOMAIN before.entities : before.entities[i].name \notin E}
            keptRelations ==
                {i \in DOMAIN before.relations : ~touches(before.relations[i], E)}
        IN  /\ \A i \in DOMAIN stored.entities : stored.entities[i].name \notin E
            /\ \A i \in DOMAIN stored.relations : ~touches(stored.relations[i], E)
            /\ stored.entities = KeptAt(before.entities, keptEntities)
            /\ stored.relations = KeptAt(before.relations, keptRelations)

CascadeDeleteWitness ==
    /\ call.op = "deleteEntities"
    /\ Len(stored.entities) >= 2
    /\ Len(stored.entities) < Len(before.entities)
    /\ Len(stored.relations) >= 1
    /\ Len(stored.relations) < Len(before.relations)
    /\ \E i \in DOMAIN stored.entities : stored.entities[i].observations # <<>>

(***************************************************************************)
(* C4: an addObservations batch that names a missing entity fails with     *)
(* not-found and leaves the file exactly as it was, also when an earlier   *)
(* entry named a stored entity and carried new observations.               *)
(***************************************************************************)
namesMissing(observations, graph) ==
    \E i \in DOMAIN observations : ~hasName(graph.entities, observations[i].entityName)

AddObservationsAllOrNothing ==
    (call.op = "addObservations" /\ namesMissing(call.args, before)) =>
        (ret.kind = "error" /\ ret.value = "not found" /\ file = pre)

AddObservationsAbortWitness ==
    /\ call.op = "addObservations"
    /\ Len(call.args) = 2
    /\ hasName(before.entities, call.args[1].entityName)
    /\ \E c \in Range(call.args[1].contents) :
          c \notin Range(before.entities[find(before.entities,
                                               call.args[1].entityName)].observations)
    /\ ~hasName(before.entities, call.args[2].entityName)
    /\ ret.kind = "error"

(***************************************************************************)
(* C5: after a successful addObservations, each target entity's            *)
(* observations are its previous ones followed by the requested strings    *)
(* not already present, each once in order of first request;               *)
(* addedObservations lists exactly the appended strings; a duplicate-free  *)
(* observation list stays duplicate-free.                                  *)
(***************************************************************************)
RECURSIVE Flatten(_)
Flatten(seqs) == IF seqs = <<>> THEN <<>> ELSE Head(seqs) \o Flatten(Tail(seqs))

FirstOccurrences(seq) ==
    KeptAt(seq, {i \in DOMAIN seq : \A j \in 1..(i - 1) : seq[j] # seq[i]})

targeting(observations, entities, i) ==
    {k \in DOMAIN observations : find(entities, observations[k].entityName) = i}

AddObservationsDeduplicates ==
    (call.op = "addObservations" /\ ret.kind = "ok") =>
        /\ Len(stored.entities) = Len(before.entities)
        /\ \A i \in DOMAIN before.entities :
              LET old == before.entities[i].observations
                  new == stored.entities[i].observations
                  entries == targeting(call.args, before.entities, i)
                  requested ==
                      Flatten([k \in 1..Cardinality(entries) |->
                                  call.args[NthOf(entries, k)].contents])
                  added ==
                      Flatten([k \in 1..Cardinality(entries) |->
                                  ret.value[NthOf(entries, k)].addedObservations])
                  fresh ==
                      FirstOccurrences(
                          SelectSeq(requested, LAMBDA c : c \notin Range(old)))
              IN  /\ new = old \o fresh
                  /\ added = fresh
                  /\ NoRepeat(old) => NoRepeat(new)

(***************************************************************************)
(* C6: createEntities returns the listed entities whose name was not       *)
(* stored and appends them in list order; a stored entity keeps its type   *)
(* and observations; with no listed name stored the whole list is          *)
(* returned, and once every listed name is stored (as after a first call)  *)
(* the call returns the empty list and leaves the graph unchanged.         *)
(***************************************************************************)
CreateEntitiesIdempotent ==
    call.op = "createEntities" =>
        LET L == call.args
            fresh == {i \in DOMAIN L : L[i].name \notin namesIn(before.entities)}
        IN  /\ ret.value = KeptAt(L, fresh)
            /\ stored.entities = before.entities \o ret.value
            /\ stored.relations = before.relations
            /\ namesIn(L) \subseteq namesIn(stored.entities)
            /\ fresh = DOMAIN L => ret.value = L
            /\ fresh = {} => (ret.value = <<>> /\ stored = before)

CreateEntitiesRepeatWitness ==
    /\ call.op = "createEntities"
    /\ call.args # <<>>
    /\ ret.value = <<>>
    /\ stored = before
    /\ \E i \in DOMAIN call.args :
          stored.entities[find(stored.entities, call.args[i].name)] # call.args[i]

(***************************************************************************)
(* Distance between stored entities, by level sets over the relations      *)
(* taken in both directions, and chains of relations between names.        *)
(***************************************************************************)
linked(graph, m, n) ==
    \E i \in DOMAIN graph.relations :
        \/ graph.relations[i].from = m /\ graph.relations[i].to = n
        \/ graph.relations[i].from = n /\ graph.relations[i].to = m

RECURSIVE Ball(_, _, _)
Ball(graph, a, k) ==
    IF k = 0 THEN {a}
    ELSE LET inner == Ball(graph, a, k - 1)
         IN  inner \cup {n \in namesIn(graph.entities) :
                            \E m \in inner : linked(graph, m, n)}

Connected(graph, a, b) == b \in Ball(graph, a, Cardinality(namesIn(graph.entities)))

Dist(graph, a, b) ==
    Min({k \in 0..Cardinality(namesIn(graph.entities)) : b \in Ball(graph, a, k)})

Chained(graph, seeds, n, k) ==
    \E j \in 0..k : \E w \in [1..(j + 1) -> Names] :
        /\ w[1] \in seeds
        /\ w[j + 1] = n
        /\ \A i \in 1..j : linked(graph, w[i], w[i + 1])

(***************************************************************************)
(* C7: for stored A and B at distance d <= maxDepth, findPath returns a    *)
(* path of length exactly d; for A = B the length is 0 and the path has    *)
(* one node.                                                               *)
(***************************************************************************)
FindPathShortest ==
    call.op = "findPath" =>
        LET a == call.args.fromEntity
            b == call.args.toEntity
        IN  (/\ a \in namesIn(stored.entities)
             /\ b \in namesIn(stored.entities)
             /\ Connected(stored, a, b)
             /\ Dist(stored, a, b) <= call.args.maxDepth) =>
                /\ ~ret.value.isNull
                /\ ret.value.length = Dist(stored, a, b)
                /\ a = b => (ret.value.length = 0 /\ Len(ret.value.path) = 1)

FindPathShortestWitness ==
    /\ call.op = "findPath"
    /\ call.args.fromEntity \in namesIn(stored.entities)
    /\ call.args.toEntity \in namesIn(stored.entities)
    /\ Connected(stored, call.args.fromEntity, call.args.toEntity)
    /\ Dist(stored, call.args.fromEntity, call.args.toEntity) = 2
    /\ call.args.maxDepth = 2
    /\ Len(stored.relations) = 3
    /\ ~ret.value.isNull
    /\ ret.value.length = 2

(***************************************************************************)
(* C8: findPath returns null when an end is not stored, when the ends are  *)
(* disconnected and when every path has more than maxDepth edges; a        *)
(* returned path never has more than maxDepth edges.                       *)
(***************************************************************************)
FindPathBounded ==
    call.op = "findPath" =>
        LET a == call.args.fromEntity
            b == call.args.toEntity
        IN  /\ (\/ a \notin namesIn(stored.entities)
                \/ b \notin namesIn(stored.entities)
                \/ ~Connected(stored, a, b)
                \/ Dist(stored, a, b) > call.args.maxDepth) => ret.value.isNull
            /\ ~ret.value.isNull =>
                  /\ ret.value.length <= call.args.maxDepth
                  /\ Len(ret.value.relations) <= call.args.maxDepth

FindPathBoundedWitness ==
    /\ call.op = "findPath"
    /\ call.args.fromEntity \in namesIn(stored.entities)
    /\ call.args.toEntity \in namesIn(stored.entities)
    /\ Connected(stored, call.args.fromEntity, call.args.toEntity)
    /\ Dist(stored, call.args.fromEntity, call.args.toEntity) = 2
    /\ call.args.maxDepth = 1
    /\ ret.value.isNull

(***************************************************************************)
(* C9: getSubgraph(seeds, k) returns exactly the stored entities whose     *)
(* name is a seed or is joined to a seed name by a chain of at most k      *)
(* stored relations followed in either direction.                          *)
(***************************************************************************)
SubgraphDepthBound ==
    call.op = "getSubgraph" =>
        LET seeds == Range(call.args.entityNames)
            within == {i \in DOMAIN stored.entities :
                          Chained(stored, seeds, stored.entities[i].name,
                                  call.args.depth)}
        IN  ret.value.entities = KeptAt(stored.entities, within)

SubgraphDepthBoundWitness ==
    /\ call.op = "getSubgraph"
    /\ call.args.depth = 1
    /\ Len(call.args.entityNames) = 1
    /\ Len(ret.value.entities) = 2
    /\ \E i \in DOMAIN stored.entities :
          /\ Chained(stored, Range(call.args.entityNames), stored.entities[i].name, 2)
          /\ stored.entities[i] \notin Range(ret.value.entities)

(***************************************************************************)
(* C10 as stated: getSubgraph(seeds, 0) returns exactly the seed entities  *)
(* and no relations.                                                       *)
(***************************************************************************)
SubgraphDepthZeroNoRelations ==
    (call.op = "getSubgraph" /\ call.args.depth = 0) =>
        /\ ret.value.entities =
              KeptAt(stored.entities,
                     {i \in DOMAIN stored.entities :
                         stored.entities[i].name \in Range(call.args.entityNames)})
        /\ ret.value.relations = <<>>

(***************************************************************************)
(* C10 as amended: getSubgraph(seeds, 0) returns exactly the stored        *)
(* entities named by a seed and exactly the stored relations whose from    *)
(* and to are both seed names.                                             *)
(***************************************************************************)
SubgraphDepthZeroSeedsOnly ==
    (call.op = "getSubgraph" /\ call.args.depth = 0) =>
        LET seeds == Range(call.args.entityNames)
        IN  /\ ret.value.entities =
                  KeptAt(stored.entities,
                         {i \in DOMAIN stored.entities :
                             stored.entities[i].name \in seeds})
            /\ ret.value.relations =
                  KeptAt(stored.relations,
                         {i \in DOMAIN stored.relations :
                             /\ stored.relations[i].from \in seeds
                             /\ stored.relations[i].to \in seeds})

SubgraphDepthZeroWitness ==
    /\ call.op = "getSubgraph"
    /\ call.args.depth = 0
    /\ Len(ret.value.entities) = 2
    /\ Len(stored.entities) = 3
    /\ Len(ret.value.relations) >= 1
    /\ Len(ret.value.relations) < Len(stored.relations)

(***************************************************************************)
(* getNeighbors described by the slots it keeps: relation i has slot       *)
(* 2i - 1 for its outgoing entry and slot 2i for its incoming entry.       *)
(***************************************************************************)
slotRelation(graph, k) == graph.relations[(k + 1) \div 2]

slotDirection(k) == IF k % 2 = 1 THEN "outgoing" ELSE "incoming"

slotOwnEnd(graph, k) ==
    IF k % 2 = 1 THEN slotRelation(graph, k).from ELSE slotRelation(graph, k).to

slotOtherEnd(graph, k) ==
    IF k % 2 = 1 THEN slotRelation(graph, k).to ELSE slotRelation(graph, k).from

slotEntry(graph, k) ==
    [entity |-> CHOOSE e \in Range(graph.entities) : e.name = slotOtherEnd(graph, k),
     relation |-> slotRelation(graph, k),
     direction |-> slotDirection(k)]

activeDirections(direction) ==
    IF ~direction.given \/ direction.value = "both"
    THEN {"outgoing", "incoming"}
    ELSE {direction.value}

neighborSlots(graph, entityName, direction, filtered, type) ==
    {k \in 1..(2 * Len(graph.relations)) :
        /\ filtered => slotRelation(graph, k).relationType = type
        /\ slotDirection(k) \in activeDirections(direction)
        /\ slotOwnEnd(graph, k) = entityName
        /\ slotOtherEnd(graph, k) \in namesIn(graph.entities)}

neighborsExpected(graph, entityName, direction, filtered, type) ==
    IF entityName \notin namesIn(graph.entities) THEN <<>>
    ELSE LET K == neighborSlots(graph, entityName, direction, filtered, type)
         IN  [j \in 1..Cardinality(K) |-> slotEntry(graph, NthOf(K, j))]

(***************************************************************************)
(* C11 as stated: getNeighbors returns, in stored order, one outgoing      *)
(* entry per relation from entityName with a stored target and one         *)
(* incoming entry per relation to entityName with a stored source, over    *)
(* the relations whose type equals the filter whenever a filter is given   *)
(* (the empty string included), and nothing when entityName is not stored. *)
(***************************************************************************)
GetNeighborsFilterWhenGiven ==
    call.op = "getNeighbors" =>
        ret.value = neighborsExpected(stored, call.args.entityName,
                                      call.args.direction,
                                      call.args.relationType.given,
                                      IF call.args.relationType.given
                                      THEN call.args.relationType.value ELSE "")

(***************************************************************************)
(* C11 amended: the same, where the relations are restricted to the        *)
(* filter's type only when the filter is a non-empty string; an empty      *)
(* filter restricts nothing.                                               *)
(***************************************************************************)
GetNeighborsExact ==
    call.op = "getNeighbors" =>
        LET filtered == /\ call.args.relationType.given
                        /\ call.args.relationType.value # ""
        IN  ret.value = neighborsExpected(stored, call.args.entityName,
                                          call.args.direction, filtered,
                                          IF filtered
                                          THEN call.args.relationType.value ELSE "")

(* A self-relation listed twice under 'both', next to a relation of        *)
(* another type that the filter leaves out.                                *)
GetNeighborsWitness ==
    /\ call.op = "getNeighbors"
    /\ call.args.direction.given /\ call.args.direction.value = "both"
    /\ call.args.relationType.given /\ call.args.relationType.value = "r"
    /\ \E i \in DOMAIN ret.value :
          /\ i + 1 \in DOMAIN ret.value
          /\ ret.value[i].relation.from = ret.value[i].relation.to
          /\ ret.value[i].relation = ret.value[i + 1].relation
          /\ ret.value[i].direction = "outgoing"
          /\ ret.value[i + 1].direction = "incoming"
    /\ \E k \in DOMAIN stored.relations :
          /\ stored.relations[k].relationType = "s"
          /\ touches(stored.relations[k], {call.args.entityName})
          /\ namesIn(stored.entities) = Names

(***************************************************************************)
(* Vocabulary of the search properties: the direct matches are the        *)
(* returned entities that the scores list.                                 *)
(***************************************************************************)
directMatches == {ret.value.entities[i] : i \in DOMAIN ret.value.scores}

containsTerm(text, term) == includes(toLowerCase(text), term)

allScopeExcluded(query) ==
    IF parseFieldQuery(query).all.given
    THEN Range(parseFieldQuery(query).all.value.excluded)
    ELSE {}

(***************************************************************************)
(* C12: whatever the graph, the query and the options, no entity that      *)
(* searchNodes lists in scores contains an excluded term of the all-fields *)
(* part of the query in its name, type and observations text, and no       *)
(* observation that searchObservations returns contains an excluded term   *)
(* (case-insensitive substring).                                           *)
(***************************************************************************)
ExcludedTermsOverride ==
    /\ call.op = "searchNodes" =>
          \A e \in directMatches : \A term \in allScopeExcluded(call.args.query) :
              ~containsTerm(allTextOf(e), term)
    /\ call.op = "searchObservations" =>
          \A i \in DOMAIN ret.value.matches :
              \A term \in Range(parseQuery(call.args.query).excluded) :
                  ~containsTerm(ret.value.matches[i].observation, term)

(***************************************************************************)
(* C13: whatever the graph, the query and the options, every entity that   *)
(* searchNodes lists in scores satisfies every field scope the query       *)
(* populates: name: against its name, type: against its type, obs:         *)
(* against its observations joined by spaces.                              *)
(***************************************************************************)
satisfiesScopes(e, fieldQuery) ==
    /\ fieldQuery.name.given => matchesParsedQuery(e.name, fieldQuery.name.value)
    /\ fieldQuery.type.given => matchesParsedQuery(e.entityType, fieldQuery.type.value)
    /\ fieldQuery.obs.given
          => matchesParsedQuery(join(e.observations), fieldQuery.obs.value)

FieldScopesAnded ==
    call.op = "searchNodes" =>
        \A e \in directMatches : satisfiesScopes(e, parseFieldQuery(call.args.query))

(***************************************************************************)
(* C14: whatever the graph, the query and the options, the relations that  *)
(* searchNodes returns are exactly the stored relations, in stored order,  *)
(* with at least one end among the names of the returned entities, the     *)
(* neighbor-added ones included.                                           *)
(***************************************************************************)
ReturnedRelationsTouching ==
    call.op = "searchNodes" =>
        ret.value.relations =
            KeptAt(stored.relations,
                   {i \in DOMAIN stored.relations :
                       touches(stored.relations[i], namesIn(ret.value.entities))})

(* A neighbor was added, and a returned relation joins a returned entity   *)
(* to a name that is not returned.                                         *)
ReturnedRelationsWitness ==
    /\ call.op = "searchNodes"
    /\ Len(ret.value.entities) > Len(ret.value.scores)
    /\ \E i \in DOMAIN ret.value.relations :
          \/ ret.value.relations[i].from \notin namesIn(ret.value.entities)
          \/ ret.value.relations[i].to \notin namesIn(ret.value.entities)

(***************************************************************************)
(* C15: whatever the graph and the query, for every limit supplied (any    *)
(* integer >= 0) searchNodes lists at most limit scores, which are the     *)
(* first of the ranking the search has without a limit, and without        *)
(* includeNeighbors it returns at most limit entities.                     *)
(***************************************************************************)
unlimitedScores ==
    searchNodesResult(stored, call.args.query, call.args.includeNeighbors,
                      call.args.fuzzy, Undefined).scores

LimitTruncates ==
    (call.op = "searchNodes" /\ call.args.limit.given) =>
        /\ Len(ret.value.scores) <= call.args.limit.value
        /\ ret.value.scores = SubSeq(unlimitedScores, 1, Len(ret.value.scores))
        /\ Len(unlimitedScores) >= call.args.limit.value
              => Len(ret.value.scores) = call.args.limit.value
        /\ ~call.args.includeNeighbors
              => Len(ret.value.entities) <= call.args.limit.value

(***************************************************************************)
(* C16: with includeNeighbors, searchNodes returns the matched and limited *)
(* entities followed by every stored entity that is the other end of a     *)
(* relation touching a matched entity and is not itself matched, each      *)
(* once; ends without a stored entity and neighbors of neighbors are not   *)
(* added, and the added entities are not in scores.                        *)
(***************************************************************************)
matchedPart == SubSeq(ret.value.entities, 1, Len(ret.value.scores))

addedPart ==
    SubSeq(ret.value.entities, Len(ret.value.scores) + 1, Len(ret.value.entities))

oneHopFrom(matched, e) ==
    \E i \in DOMAIN stored.relations : \E m \in Range(matched) :
        \/ stored.relations[i].from = m.name /\ stored.relations[i].to = e.name
        \/ stored.relations[i].to = m.name /\ stored.relations[i].from = e.name

NeighborExpansionOneHop ==
    (call.op = "searchNodes" /\ call.args.includeNeighbors) =>
        /\ Len(ret.value.scores) <= Len(ret.value.entities)
        /\ matchedPart = searchNodesResult(stored, call.args.query, FALSE,
                                           call.args.fuzzy, call.args.limit).entities
        /\ Range(addedPart) =
               {e \in Range(stored.entities) :
                   e \notin Range(matchedPart) /\ oneHopFrom(matchedPart, e)}
        /\ NoRepeat(ret.value.entities)
        /\ \A e \in Range(addedPart) : \A i \in DOMAIN ret.value.scores :
               ret.value.scores[i].name # e.name

(***************************************************************************)
(* C17: whatever the graph, the query and the options, the scores of       *)
(* searchNodes are in non-increasing order of score and name, in order,    *)
(* the first entities returned; the matches of searchObservations are in   *)
(* non-increasing order of score.                                          *)
(***************************************************************************)
nonIncreasing(seq) ==
    \A i, j \in DOMAIN seq : i < j => seq[i].score >= seq[j].score

RankedByScore ==
    /\ call.op = "searchNodes" =>
          /\ nonIncreasing(ret.value.scores)
          /\ Len(ret.value.scores) <= Len(ret.value.entities)
          /\ \A i \in DOMAIN ret.value.scores :
                ret.value.scores[i].name = ret.value.entities[i].name
    /\ call.op = "searchObservations" => nonIncreasing(ret.value.matches)

(* Two direct matches of different scores, the higher one stored later. *)
RankedByScoreWitness ==
    /\ call.op = "searchNodes"
    /\ Len(ret.value.scores) = 2
    /\ ret.value.scores[1].score > ret.value.scores[2].score
    /\ \E i, j \in DOMAIN stored.entities :
          /\ i < j
          /\ stored.entities[i].name = ret.value.scores[2].name
          /\ stored.entities[j].name = ret.value.scores[1].name

(***************************************************************************)
(* C18 as stated: for every query and every two entities, whatever their   *)
(* types and observations, if the first's name equals the query            *)
(* case-insensitively and the second's name contains the query as a proper *)
(* substring, the first scores at least as much as the second.             *)
(***************************************************************************)
nameEquals(e, query) == toLowerCase(e.name) = toLowerCase(query)

nameProperlyContains(e, query) ==
    /\ includes(toLowerCase(e.name), toLowerCase(query))
    /\ toLowerCase(e.name) # toLowerCase(query)

orderKept(beforeSeq, storedSeq, key(_), isNew(_)) ==
    \E K \in SUBSET DOMAIN beforeSeq :
        /\ Cardinality(K) <= Len(storedSeq)
        /\ \A k \in 1..Cardinality(K) :
              key(storedSeq[k]) = key(beforeSeq[NthOf(K, k)])
        /\ \A k \in (Cardinality(K) + 1)..Len(storedSeq) : isNew(storedSeq[k])

PersistenceKeepsOrder ==
    /\ file.exists => saveGraph(loadGraph(file)) = file
    /\ call.op = "readGraph" =>
          /\ Len(file.lines) = Len(ret.value.entities) + Len(ret.value.relations)
          /\ \A i \in DOMAIN ret.value.entities :
                file.lines[i] = EntityLine(ret.value.entities[i])
          /\ \A i \in DOMAIN ret.value.relations :
                file.lines[Len(ret.value.entities) + i]
                    = RelationLine(ret.value.relations[i])
    /\ call.op \notin {"idle", "readGraph"} =>
          /\ orderKept(before.entities, stored.entities,
                       LAMBDA e : e.name,
                       LAMBDA e : /\ call.op = "createEntities"
                                  /\ e \in Range(call.args)
                                  /\ e.name \notin namesIn(before.entities))
          /\ orderKept(before.relations, stored.relations,
                       LAMBDA r : r,
                       LAMBDA r : /\ call.op = "createRelations"
                                  /\ r \in Range(call.args)
                                  /\ r \notin Range(before.relations))

(* readGraph lists B before A, stored in that order, and a relation after. *)
PersistenceWitness ==
    /\ call.op = "readGraph"
    /\ Len(ret.value.entities) = 2
    /\ ret.value.entities[1].name = "B"
    /\ ret.value.entities[2].name = "A"
    /\ Len(ret.value.entities[2].observations) > 0
    /\ Len(ret.value.relations) > 0

(***************************************************************************)
(* C20: when mutating calls interleave, with the load and the save of each *)
(* as separate steps, the file after the calls that have completed is the  *)
(* graph written by the one that saved last: the graph that call loaded    *)
(* with its own change, whatever the others saved in between; every        *)
(* completed call reports success, a create returning the entities it      *)
(* added to the graph it loaded.                                           *)
(***************************************************************************)
completed == {t \in Tasks : tasks[t].pc = "done"}

savedLast(t) == t \in completed /\ \A u \in completed : tasks[u].order <= tasks[t].order

ownChange(t) ==
    LET g == tasks[t].graph
        a == tasks[t].args
    IN  IF tasks[t].op = "createEntities"
        THEN KnowledgeGraph(
                 g.entities
                     \o KeptAt(a, {i \in DOMAIN a : a[i].name \notin namesIn(g.entities)}),
                 g.relations)
        ELSE KnowledgeGraph(
                 KeptAt(g.entities,
                        {i \in DOMAIN g.entities : g.entities[i].name \notin Range(a)}),
                 KeptAt(g.relations,
                        {i \in DOMAIN g.relations : ~touches(g.relations[i], Range(a))}))

LastSaveWins ==
    \A t \in Tasks :
        /\ savedLast(t) => stored = ownChange(t)
        /\ t \in completed =>
              /\ tasks[t].ret.kind = "ok"
              /\ tasks[t].op = "createEntities" =>
                    \A i \in DOMAIN tasks[t].ret.value :
                        /\ tasks[t].ret.value[i] \in Range(ownChange(t).entities)
                        /\ tasks[t].ret.value[i].name \notin namesIn(tasks[t].graph.entities)

(* load 1, load 2, save 1, save 2: both calls returned the entity they     *)
(* created, and the one the first call created is not in the file.         *)
LostUpdateWitness ==
    /\ completed = Tasks
    /\ \A t \in Tasks : tasks[t].op = "createEntities" /\ Len(tasks[t].ret.value) = 1
    /\ \E t, u \in Tasks :
          /\ tasks[t].order < tasks[u].order
          /\ tasks[t].graph = tasks[u].graph
          /\ tasks[t].ret.value[1].name \notin namesIn(stored.entities)
          /\ tasks[u].ret.value[1].name \in namesIn(stored.entities)

(***************************************************************************)
(* Vocabulary of the delete properties: the targets a delete call names,   *)
(* looked up in the graph before the call, and the same call applied once  *)
(* more to the graph it left.                                              *)
(***************************************************************************)
deleteOps == {"deleteEntities", "deleteObservations", "deleteRelations"}

targetsAbsent ==
    CASE call.op = "deleteEntities" ->
             \A n \in Range(call.args) : n \notin namesIn(before.entities)
      [] call.op = "deleteObservations" ->
             \A k \in DOMAIN call.args : \A e \in Range(before.entities) :
                 e.name = call.args[k].entityName
                     => Range(e.observations) \cap Range(call.args[k].observations) = {}
      [] call.op = "deleteRelations" ->
             \A k \in DOMAIN call.args : \A r \in Range(before.relations) :
                 ~(/\ r.from = call.args[k].from /\ r.to = call.args[k].to
                   /\ r.relationType = call.args[k].relationType)
      [] OTHER -> FALSE

appliedAgain ==
    CASE call.op = "deleteEntities" -> deleteEntitiesResult(stored, call.args)
      [] call.op = "deleteObservations" -> deleteObservationsEach(stored, call.args)
      [] call.op = "deleteRelations" -> deleteRelationsResult(stored, call.args)
      [] OTHER -> stored

(***************************************************************************)
(* C21 as stated: a delete call never fails; when every entity,            *)
(* observation or triple it names is absent it leaves every stored entity  *)
(* and relation as it was; and the same call applied again leaves the      *)
(* graph that the first application left.                                  *)
(***************************************************************************)
DeletesNoOpOnAbsent ==
    call.op \in deleteOps =>
        /\ ret.kind = "ok"
        /\ targetsAbsent => stored = before
        /\ appliedAgain = stored

(***************************************************************************)
(* C21 amended: the same, where a deleteEntities call leaves the graph as  *)
(* it was when no listed name is stored and no stored relation has a       *)
(* listed name as its from or to.                                          *)
(***************************************************************************)
DeletesIdempotent ==
    call.op \in deleteOps =>
        /\ ret.kind = "ok"
        /\ (/\ targetsAbsent
            /\ call.op = "deleteEntities"
                  => \A i \in DOMAIN before.relations :
                         ~touches(before.relations[i], Range(call.args)))
              => stored = before
        /\ appliedAgain = stored

(* A deleteObservations batch that names a missing entity and a stored one *)
(* without the listed observation, over a graph that has observations and  *)
(* relations.                                                              *)
DeletesIdempotentWitness ==
    /\ call.op = "deleteObservations"
    /\ Len(call.args) = 2
    /\ \E k \in DOMAIN call.args : call.args[k].entityName \notin namesIn(before.entities)
    /\ \E k \in DOMAIN call.args : call.args[k].entityName \in namesIn(before.entities)
    /\ targetsAbsent
    /\ \E e \in Range(before.entities) : e.observations # <<>>
    /\ before.relations # <<>>
    /\ ret.kind = "ok"
    /\ stored = before

(***************************************************************************)
(* Vocabulary of the read properties: the entities and the names that the  *)
(* response of a read operation carries.                                   *)
(***************************************************************************)
graphReads == {"readGraph", "searchNodes", "openNodes", "getSubgraph",
               "filterByType", "filterRelations"}

returnedEntities ==
    CASE call.op \in graphReads -> Range(ret.value.entities)
      [] call.op = "getNeighbors" -> {ret.value[i].entity : i \in DOMAIN ret.value}
      [] call.op = "findPath" ->
             IF ret.value.isNull THEN {} ELSE Range(ret.value.path)
      [] call.op = "filterByObservation" -> Range(ret.value)
      [] call.op = "searchObservations" ->
             IF ret.value.entities.given THEN Range(ret.value.entities.value) ELSE {}
      [] OTHER -> {}

returnedNames ==
    {e.name : e \in returnedEntities}
    \cup (IF call.op = "searchNodes"
          THEN {ret.value.scores[i].name : i \in DOMAIN ret.value.scores} ELSE {})
    \cup (IF call.op = "searchObservations"
          THEN {ret.value.matches[i].entityName : i \in DOMAIN ret.value.matches}
          ELSE {})

(***************************************************************************)
(* C22: in a sequential history, from a deleteEntities call that lists a   *)
(* name until a createEntities call that lists it again, no read           *)
(* operation returns an entity of that name, and getNeighbors returns no   *)
(* entry whose relation has that name as its from or to.                   *)
(***************************************************************************)
DeletedStaysInvisible ==
    /\ returnedNames \cap gone = {}
    /\ namesIn(stored.entities) \cap gone = {}
    /\ call.op = "getNeighbors" =>
          \A i \in DOMAIN ret.value : ~touches(ret.value[i].relation, gone)

(* getNeighbors of a stored entity, with a stored relation that joins it   *)
(* to a deleted name and another that joins it to a stored entity.         *)
DeletedStaysInvisibleWitness ==
    /\ call.op = "getNeighbors"
    /\ call.args.entityName \in namesIn(stored.entities)
    /\ \E i \in DOMAIN stored.relations :
          /\ touches(stored.relations[i], gone)
          /\ touches(stored.relations[i], {call.args.entityName})
    /\ Len(ret.value) = 1

(***************************************************************************)
(* C23: whatever the graph and the argument, in the result of openNodes,   *)
(* filterByType and getSubgraph every returned relation has its from and   *)
(* its to among the names of the returned entities, and every stored       *)
(* relation whose from and to are both names of returned entities is       *)
(* returned.                                                               *)
(***************************************************************************)
closedOver(relations, names) ==
    \A i \in DOMAIN relations : relations[i].from \in names /\ relations[i].to \in names

ClosedSubgraphs ==
    call.op \in {"openNodes", "filterByType", "getSubgraph"} =>
        /\ closedOver(ret.value.relations, namesIn(ret.value.entities))
        /\ ret.value.relations =
              KeptAt(stored.relations,
                     {i \in DOMAIN stored.relations :
                         /\ stored.relations[i].from \in namesIn(ret.value.entities)
                         /\ stored.relations[i].to \in namesIn(ret.value.entities)})

(***************************************************************************)
(* C24: on every graph (cycles, self-relations, parallel relations and     *)
(* relations with a missing end included) and for every maxDepth >= 0, a   *)
(* findPath call that has started comes to a result, a path or null; while *)
(* it runs no name has its adjacency list walked twice; and the result is  *)
(* the one the search yields when taken as a whole.                        *)
(***************************************************************************)
findPathRunning == call.op = "findPath" /\ ret.kind = "running"

findPathDone == call.op = "findPath" /\ ret.kind = "ok"

FindPathTerminates ==
    /\ [](findPathRunning => NoRepeat(ret.value.expanded))
    /\ [](findPathDone =>
             ret.value = findPathResult(stored, call.args.fromEntity,
                                        call.args.toEntity, call.args.maxDepth))
    /\ (call.op = "findPath") ~> findPathDone

(* A running search on a graph with a self-relation and a two-way pair,    *)
(* two names walked, and at the head of the queue a name already visited.  *)
FindPathTerminatesWitness ==
    /\ findPathRunning
    /\ Len(ret.value.expanded) = 2
    /\ ret.value.queue # <<>>
    /\ Head(ret.value.queue).name \in ret.value.visited
    /\ \E i \in DOMAIN stored.relations :
          stored.relations[i].from = stored.relations[i].to
    /\ \E i, j \in DOMAIN stored.relations :
          /\ stored.relations[i].from = stored.relations[j].to
          /\ stored.relations[i].to = stored.relations[j].from
          /\ stored.relations[i].from # stored.relations[i].to

(***************************************************************************)
(* C25: for every text and every parsed query, matchesParsedQuery answers  *)
(* true exactly when every required term is in the lower-cased text, no    *)
(* excluded term is, every phrase is, and optional is empty or required is *)
(* not empty or phrases is not empty or some optional term is in the text; *)
(* a parsed query without any term matches every text.                     *)
(***************************************************************************)
inText(term) == includes(toLowerCase(call.args.text), term)

FourRuleGate ==
    (call.op = "matchesParsedQuery" /\ ret.kind = "ok") =>
        LET parsed == call.args.parsed
        IN  /\ ret.value =
                  (/\ \A i \in DOMAIN parsed.required : inText(parsed.required[i])
                   /\ \A i \in DOMAIN parsed.excluded : ~inText(parsed.excluded[i])
                   /\ \A i \in DOMAIN parsed.phrases : inText(parsed.phrases[i])
                   /\ \/ parsed.optional = <<>>
                      \/ parsed.required # <<>>
                      \/ parsed.phrases # <<>>
                      \/ \E i \in DOMAIN parsed.optional : inText(parsed.optional[i]))
            /\ (parsed = ParsedQuery(<<>>, <<>>, <<>>, <<>>)) => ret.value

(* A required term in the text and no optional term in it: the optional    *)
(* terms do not gate, and the text matches.                                *)
FourRuleGateWitness ==
    /\ call.op = "matchesParsedQuery"
    /\ ret.kind = "ok"
    /\ ret.value
    /\ call.args.parsed.required # <<>>
    /\ call.args.parsed.optional # <<>>
    /\ \A i \in DOMAIN call.args.parsed.optional : ~inText(call.args.parsed.optional[i])

(***************************************************************************)
(* C26: parseQuery puts every token outside the quoted phrases into one    *)
(* list, in lower case and in the order of the query: a sign followed by   *)
(* something goes without the sign to required (+) or to excluded (-), and *)
(* every other token goes to optional; as claimed, a bare sign is one of   *)
(* the other tokens, and as amended a bare sign goes to no list while      *)
(* optional takes the tokens that begin with neither sign.                 *)
(***************************************************************************)
outsideTokens ==
    nonEmpty(split(blankMatches(call.args.query, phraseMatches(call.args.query, 1),
                                call.args.query)))

signed(token, sign) == Head(token) = sign /\ Len(token) > 1

bareSign(token) == token = <<"+">> \/ token = <<"-">>

signedTerms(sign) ==
    Map(SelectSeq(outsideTokens, LAMBDA t : signed(t, sign)),
        LAMBDA t : toLowerCase(Tail(t)))

ParseQueryDropsNone ==
    (call.op = "parseQuery" /\ ret.kind = "ok") =>
        /\ ret.value.required = signedTerms("+")
        /\ ret.value.excluded = signedTerms("-")
        /\ ret.value.optional =
              Map(SelectSeq(outsideTokens,
                            LAMBDA t : ~signed(t, "+") /\ ~signed(t, "-")),
                  toLowerCase)
        /\ Len(ret.value.required) + Len(ret.value.excluded)
              + Len(ret.value.optional) = Len(outsideTokens)

ParseQueryDropsBareSigns ==
    (call.op = "parseQuery" /\ ret.kind = "ok") =>
        /\ ret.value.required = signedTerms("+")
        /\ ret.value.excluded = signedTerms("-")
        /\ ret.value.optional =
              Map(SelectSeq(outsideTokens,
                            LAMBDA t : Head(t) # "+" /\ Head(t) # "-"),
                  toLowerCase)
        /\ Len(ret.value.required) + Len(ret.value.excluded)
              + Len(ret.value.optional)
              = Len(SelectSeq(outsideTokens, LAMBDA t : ~bareSign(t)))

(* A bare sign next to a required term: the term is kept, the sign is in   *)
(* no list.                                                                *)
ParseQueryDropsBareSignsWitness ==
    /\ call.op = "parseQuery"
    /\ ret.kind = "ok"
    /\ \E i \in DOMAIN outsideTokens : bareSign(outsideTokens[i])
    /\ ret.value.required = <<ann>>
    /\ ret.value.optional = <<>>
    /\ ret.value.excluded = <<>>

(***************************************************************************)
(* C27: fuzzyMatch(text, term) is true exactly when some non-empty word w  *)
(* of the lower-cased text, split at whitespace, contains the term or is   *)
(* contained in it, or differs from it in length by at most t and in edit  *)
(* distance by at most t, with t the larger of 1 and a quarter of the      *)
(* length of the term rounded down; a text without such a word does not    *)
(* match.                                                                  *)
(***************************************************************************)
wordMatches(word, term) ==
    LET t == Max({1, Len(term) \div 4})
    IN  \/ includes(word, term)
        \/ includes(term, word)
        \/ /\ abs(Len(word) - Len(term)) <= t
           /\ levenshteinDistance(word, term) <= t

FuzzyMatchByWords ==
    (call.op = "fuzzyMatch" /\ ret.kind = "ok") =>
        ret.value =
            \E w \in Range(tokenize(call.args.text)) :
                wordMatches(w, toLowerCase(call.args.query))

(***************************************************************************)
(* C28: when findPath returns a path, its first entity is named fromEntity *)
(* and its last toEntity; length is the number of relations and one less   *)
(* than the number of entities; relation i is a stored relation whose ends *)
(* are the names of entities i and i + 1 in either order; every entity of  *)
(* the path is a stored entity; and no name is on the path twice.          *)
(***************************************************************************)
joins(rel, a, b) ==
    \/ rel.from = a /\ rel.to = b
    \/ rel.from = b /\ rel.to = a

WellFormedPath ==
    (call.op = "findPath" /\ ret.kind = "ok" /\ ~ret.value.isNull) =>
        LET path == ret.value.path
            relations == ret.value.relations
        IN  /\ path # <<>>
            /\ path[1].name = call.args.fromEntity
            /\ path[Len(path)].name = call.args.toEntity
            /\ ret.value.length = Len(relations)
            /\ Len(relations) = Len(path) - 1
            /\ \A i \in DOMAIN relations :
                  /\ relations[i] \in Range(stored.relations)
                  /\ joins(relations[i], path[i].name, path[i + 1].name)
            /\ \A i \in DOMAIN path : path[i] \in Range(stored.entities)
            /\ NoRepeat([i \in DOMAIN path |-> path[i].name])

(* A path of two relations, the first walked from its to end and the       *)
(* second from its from end, on a graph that also holds a self-relation.   *)
WellFormedPathWitness ==
    /\ call.op = "findPath"
    /\ ret.kind = "ok"
    /\ ~ret.value.isNull
    /\ ret.value.length = 2
    /\ ret.value.relations[1].to = call.args.fromEntity
    /\ ret.value.relations[2].to = call.args.toEntity
    /\ \E i \in DOMAIN stored.relations :
          stored.relations[i].from = stored.relations[i].to

(***************************************************************************)
(* C29: when every createRelations call names only entities that are       *)
(* stored at the time of the call, every stored relation has an entity     *)
(* stored under its from name and one under its to name, in every state    *)
(* the store operations reach.                                             *)
(***************************************************************************)
ReferentialIntegrity ==
    \A i \in DOMAIN stored.relations :
        /\ stored.relations[i].from \in namesIn(stored.entities)
        /\ stored.relations[i].to \in namesIn(stored.entities)

(* deleteEntities has removed an entity together with a relation of it,    *)
(* and a relation among the remaining entities is still stored.            *)
ReferentialIntegrityWitness ==
    /\ call.op = "deleteEntities"
    /\ ret.kind = "ok"
    /\ Len(stored.entities) < Len(loadGraph(pre).entities)
    /\ Len(stored.relations) < Len(loadGraph(pre).relations)
    /\ stored.relations # <<>>

(***************************************************************************)
(* C30: on every graph, relations with a missing end included, for stored  *)
(* entities a and b of different names and every k >= 0, findPath(a, b, k) *)
(* returns a path exactly when b is among the entities that                *)
(* getSubgraph([a], k) returns.                                            *)
(***************************************************************************)
withinSubgraph ==
    call.args.toEntity \in
        namesIn(getSubgraphResult(stored, <<call.args.fromEntity>>,
                                  call.args.maxDepth).entities)

TraversalsAgree ==
    (/\ call.op = "findPath"
     /\ ret.kind = "ok"
     /\ call.args.fromEntity # call.args.toEntity
     /\ call.args.fromEntity \in namesIn(stored.entities)
     /\ call.args.toEntity \in namesIn(stored.entities))
        => (~ret.value.isNull <=> withinSubgraph)

====
